---- MODULE Spec2Model ----
(***************************************************************************)
(* Model of the algorithm runner of competing-salesmen                     *)
(* (src/src/services/algorithmRunner.ts): one runner instance created by   *)
(* createAlgorithmRunner(), the promises its run() calls return, the       *)
(* workers its factory creates and the timers it arms.                     *)
(*                                                                         *)
(* Environment (the browser's Worker, setTimeout and Promise):             *)
(*  - a promise settles on the first resolve/reject; later calls of its    *)
(*    resolve/reject functions are ignored;                                *)
(*  - a timer that was cleared never fires; an armed timer fires once its  *)
(*    delay has elapsed;                                                   *)
(*  - worker events are tasks of the main event loop: a worker raises an   *)
(*    event and the handler the runner installed runs later.               *)
(*    terminate() empties the queue of messages the worker posted, so a    *)
(*    message raised before terminate() and not yet handled is dropped.    *)
(*    An error event raised before terminate() is still reported to the    *)
(*    Worker object (error reports propagate even from terminated          *)
(*    workers), and the runner never detaches onerror.                     *)
(***************************************************************************)
EXTENDS Integers, Sequences, FiniteSets, TLC

\* ---------------------------------------------------------------- bounds
MaxRuns == 2          \* run() calls on the runner
MaxTimeout == 1       \* largest options.timeout tried, in milliseconds

\* ------------------------------------------------------------- constants
Null == "<null>"                  \* null (state.error, no message)
Undefined == -1                   \* options omitted / options.timeout undefined

Runs == 1..MaxRuns
TimeoutOpts == {Undefined, 0} \cup (1..MaxTimeout)

\* error strings a worker can report in {type:'error', error}
WorkerErrors == {"Algorithm not found: x"}
\* ErrorEvent.message of an uncaught worker error; "" is the empty message
EventMessages == {"", "Script error."}
\* outcome of the worker factory: "ok" or the message of the error it throws
FactoryOutcomes == {"ok", "no worker"}

Codes == {"TIMEOUT", "CANCELLED", "WORKER_ERROR"}

VARIABLES
  state,          \* RunnerState {isRunning, canCancel, error}
  currentWorker,  \* the run whose worker is held, 0 = null
  currentReject,  \* the run whose reject function is held, 0 = null
  timeoutId,      \* the run whose timer id is held, 0 = null
  nRuns,          \* number of run() calls made so far
  promise,        \* promise[r]: the promise returned by the r-th run()
  worker,         \* worker[r]: the worker created by run r
  workerEv,       \* workerEv[r]: event raised by worker r and its delivery
  timer,          \* timer[r]: the timer armed by run r
  last,           \* the handler that ran last and the run it belongs to
  inst,           \* inst[i]: the data of the i-th runner of a set of runners
  call            \* the last call of a function studied on its own

runnerVars == <<state, currentWorker, currentReject, timeoutId, nRuns, promise,
                worker, workerEv, timer, last>>

vars == <<state, currentWorker, currentReject, timeoutId, nRuns, promise,
          worker, workerEv, timer, last, inst, call>>

\* ----------------------------------------------------------- RunnerState
RunnerState(r, c, e) == [isRunning |-> r, canCancel |-> c, error |-> e]

IdleState == RunnerState(FALSE, FALSE, Null)

\* ------------------------------------------------------------- messages
Digit(n) == CASE n = 0 -> "0" [] n = 1 -> "1" [] n = 2 -> "2" [] n = 3 -> "3"
              [] n = 4 -> "4" [] OTHER -> "9"

\* `Algorithm timed out after ${options.timeout}ms`
TimeoutMessage(t) == "Algorithm timed out after " \o Digit(t) \o "ms"

\* `Failed to create worker: ${err.message}`
CreateMessage(e) == "Failed to create worker: " \o e

\* event.message || 'Unknown worker error'
ErrorEventMessage(m) == IF m = "" THEN "Unknown worker error" ELSE m

CancelMessage == "Algorithm cancelled by user"

\* the error JSON.stringify throws; it is not an AlgorithmRunnerError
RawMessage == "Do not know how to serialize a BigInt"

\* ------------------------------------------------------------- promises
Pending == [outcome |-> "pending", code |-> Null, message |-> Null]
NoPromise == [outcome |-> "none", code |-> Null, message |-> Null]
Resolved == [outcome |-> "resolved", code |-> Null, message |-> Null]
Rejected(code, msg) == [outcome |-> "rejected", code |-> code, message |-> msg]

\* resolve()/reject() of promise r: only the first call settles it
Settle(p, r, o) == IF p[r].outcome = "pending" THEN [p EXCEPT ![r] = o] ELSE p

\* ------------------------------------------------------- the runner's data
\* The mutable data of the runner and of its environment as one record, so
\* that a handler is the composition of its statements.
Cur == [state |-> state, currentWorker |-> currentWorker,
        currentReject |-> currentReject, timeoutId |-> timeoutId,
        promise |-> promise, worker |-> worker,
        workerEv |-> workerEv, timer |-> timer]

Commit(s) ==
  /\ state' = s.state
  /\ currentWorker' = s.currentWorker
  /\ currentReject' = s.currentReject
  /\ timeoutId' = s.timeoutId
  /\ promise' = s.promise
  /\ worker' = s.worker
  /\ workerEv' = s.workerEv
  /\ timer' = s.timer
  /\ UNCHANGED <<inst, call>>

\* ---------------------------------------------------------------- timers
\* st: "none" | "armed" | "cleared" | "fired"; t: the delay it was armed
\* with; left: milliseconds until it is due
NoTimer == [st |-> "none", t |-> 0, left |-> 0]
Armed(t) == [st |-> "armed", t |-> t, left |-> t]

Cleared == [st |-> "cleared", t |-> 0, left |-> 0]
Fired == [st |-> "fired", t |-> 0, left |-> 0]

\* clearTimeout(id): an armed timer is cleared, anything else is left alone
ClearTimeout(tm, id) ==
  IF tm[id].st = "armed" THEN [tm EXCEPT ![id] = Cleared] ELSE tm

\* worker[r]: "none" (not created), "started" (created, no request yet),
\* "working" (the request was posted to it) or "terminated"
Live(w) == w \in {"started", "working"}

\* workerEv[r]: nothing raised yet, an event raised and waiting for its
\* handler, or done (handled, discarded by terminate(), or never to come
\* because the worker was terminated)
Idle == [at |-> "idle", kind |-> Null, msg |-> Null]
Raised(kind, msg) == [at |-> "raised", kind |-> kind, msg |-> msg]
Done == [at |-> "done", kind |-> Null, msg |-> Null]

\* worker.terminate(): the worker stops and raises nothing more; a message
\* it posted that has not been handled yet is discarded, an error event
\* already raised is not
Terminate(s, w) ==
  [s EXCEPT !.worker[w] = "terminated",
            !.workerEv[w] = IF @.at = "raised" /\ @.kind = "errorEvent"
                            THEN @ ELSE Done]

\* cleanup() that forgets the worker without terminating it
cleanup_NoTerminate(s) ==
  LET s1 == IF s.timeoutId # 0
            THEN [s EXCEPT !.timer = ClearTimeout(s.timer, s.timeoutId),
                           !.timeoutId = 0]
            ELSE s
  IN [s1 EXCEPT !.currentWorker = 0,
                !.currentReject = 0,
                !.state = RunnerState(FALSE, FALSE, s1.state.error)]

\* cleanup()
cleanup(s) ==
  LET s1 == IF s.timeoutId # 0
            THEN [s EXCEPT !.timer = ClearTimeout(s.timer, s.timeoutId),
                           !.timeoutId = 0]
            ELSE s
      s2 == IF s1.currentWorker # 0
            THEN [Terminate(s1, s1.currentWorker) EXCEPT !.currentWorker = 0]
            ELSE s1
  IN [s2 EXCEPT !.currentReject = 0,
                !.state = RunnerState(FALSE, FALSE, s2.state.error)]

\* cancel() without the isRunning test of its guard
cancel_NoRunningTest(s) ==
  IF s.currentReject = 0
  THEN s
  ELSE LET rejectFn == s.currentReject
           s1 == cleanup([s EXCEPT !.state = RunnerState(FALSE, FALSE, Null)])
       IN [s1 EXCEPT !.promise =
              Settle(s1.promise, rejectFn, Rejected("CANCELLED", CancelMessage))]

\* cancel()
cancel(s) ==
  IF ~s.state.isRunning \/ s.currentReject = 0
  THEN s
  ELSE LET rejectFn == s.currentReject
           s1 == cleanup([s EXCEPT !.state = RunnerState(FALSE, FALSE, Null)])
       IN [s1 EXCEPT !.promise =
              Settle(s1.promise, rejectFn, Rejected("CANCELLED", CancelMessage))]

\* op: the handler that ran last; run: the run whose closure it is (the
\* new run for run(), 0 for cancel() and clearError())
Last(op, r) == [op |-> op, run |-> r]

\* createAlgorithmRunner(): the data a new runner closes over, with the
\* promises, workers and timers its runs will create
NewRunner ==
  [state |-> IdleState, currentWorker |-> 0, currentReject |-> 0,
   timeoutId |-> 0, nRuns |-> 0,
   promise |-> [r \in Runs |-> NoPromise],
   worker |-> [r \in Runs |-> "none"],
   workerEv |-> [r \in Runs |-> Idle],
   timer |-> [r \in Runs |-> NoTimer]]

\* the runners of a set of runners, one per createAlgorithmRunner() call
Instances == {1, 2}

\* no function has been called
NoCall == [fn |-> "none", arg |-> Null, ret |-> Null]

\* ------------------------------------------------------------------ Init
Init ==
  /\ state = IdleState
  /\ currentWorker = 0
  /\ currentReject = 0
  /\ timeoutId = 0
  /\ nRuns = 0
  /\ promise = [r \in Runs |-> NoPromise]
  /\ worker = [r \in Runs |-> "none"]
  /\ workerEv = [r \in Runs |-> Idle]
  /\ timer = [r \in Runs |-> NoTimer]
  /\ last = Last("init", 0)
  /\ inst = [i \in Instances |-> NewRunner]
  /\ call = NoCall

\* ----------------------------------------------------------------- run()
\* the test without the truthiness of options.timeout: 0 arms a timer
HasTimeout_ZeroArms(t) == t # Undefined /\ t >= 0

\* options?.timeout && options.timeout > 0
HasTimeout(t) == t # Undefined /\ t # 0 /\ t > 0

\* the executor after the worker was created: handlers installed, timer
\* armed, request built and posted (serialisable = JSON.stringify succeeds)
StartWorker(s, r, t, serialisable) ==
  LET s1 == [s EXCEPT !.worker[r] = "started", !.currentWorker = r]
      s2 == IF HasTimeout(t)
            THEN [s1 EXCEPT !.timer[r] = Armed(t), !.timeoutId = r]
            ELSE s1
  IN IF serialisable
     THEN [s2 EXCEPT !.worker[r] = "working"]
     ELSE [s2 EXCEPT !.promise =
              Settle(s2.promise, r, Rejected("<none>", RawMessage))]

\* the catch branch without the assignment to state.value
FactoryFailed_StateKept(s, r, f) ==
  [s EXCEPT !.promise = Settle(s.promise, r,
                               Rejected("WORKER_ERROR", CreateMessage(f)))]

\* the catch branch of the executor: the worker factory threw f
FactoryFailed(s, r, f) ==
  [s EXCEPT !.state = RunnerState(FALSE, FALSE, CreateMessage(f)),
            !.promise = Settle(s.promise, r,
                               Rejected("WORKER_ERROR", CreateMessage(f)))]

\* the entry of run() that spreads the previous state into the new one
enterRunning_KeepsError(s, r) ==
  LET s1 == IF s.state.isRunning THEN cancel(s) ELSE s
  IN [s1 EXCEPT !.state = RunnerState(TRUE, TRUE, s1.state.error),
                !.promise[r] = Pending,
                !.currentReject = r]

\* the entry of run(): an in-flight run is cancelled, the state becomes
\* Running with error null, the promise is created and its reject kept
enterRunning(s, r) ==
  LET s1 == IF s.state.isRunning THEN cancel(s) ELSE s
  IN [s1 EXCEPT !.state = RunnerState(TRUE, TRUE, Null),
                !.promise[r] = Pending,
                !.currentReject = r]

run(s, r, t, f, serialisable) ==
  LET s2 == enterRunning(s, r)
  IN IF f # "ok" THEN FactoryFailed(s2, r, f)
     ELSE StartWorker(s2, r, t, serialisable)

Run(t, f, serialisable) ==
  /\ nRuns < MaxRuns
  /\ LET r == nRuns + 1 IN
       /\ Commit(run(Cur, r, t, f, serialisable))
       /\ nRuns' = r
       /\ last' = Last("run", r)

\* --------------------------------------------------------- worker handlers
\* currentWorker.onmessage of run r
onmessage(s, r, ev) ==
  IF ev.kind = "success"
  THEN LET s1 == cleanup([s EXCEPT !.state = RunnerState(FALSE, FALSE, Null)])
       IN [s1 EXCEPT !.promise = Settle(s1.promise, r, Resolved)]
  ELSE LET s1 == cleanup([s EXCEPT !.state = RunnerState(FALSE, FALSE, ev.msg)])
       IN [s1 EXCEPT !.promise =
              Settle(s1.promise, r, Rejected("WORKER_ERROR", ev.msg))]

\* currentWorker.onerror of run r
onerror(s, r, ev) ==
  LET m == ErrorEventMessage(ev.msg)
      s1 == cleanup([s EXCEPT !.state = RunnerState(FALSE, FALSE, m)])
  IN [s1 EXCEPT !.promise = Settle(s1.promise, r, Rejected("WORKER_ERROR", m))]

\* the setTimeout callback of run r
ontimeout(s, r, t) ==
  LET m == TimeoutMessage(t)
      s1 == cleanup([s EXCEPT !.state = RunnerState(FALSE, FALSE, m)])
  IN [s1 EXCEPT !.promise = Settle(s1.promise, r, Rejected("TIMEOUT", m))]

\* the worker answers the request: one response per request
WorkerResponds(r, kind, msg) ==
  /\ worker[r] = "working"
  /\ workerEv[r].at = "idle"
  /\ workerEv' = [workerEv EXCEPT ![r] = Raised(kind, msg)]
  /\ UNCHANGED <<state, currentWorker, currentReject, timeoutId, nRuns, promise,
                 worker, timer, last, inst, call>>

\* the worker fails with an uncaught error (script load failure, fault
\* outside the try block): an error event is queued for the Worker object
WorkerFails(r, msg) ==
  /\ Live(worker[r])
  /\ workerEv[r].at = "idle"
  /\ workerEv' = [workerEv EXCEPT ![r] = Raised("errorEvent", msg)]
  /\ UNCHANGED <<state, currentWorker, currentReject, timeoutId, nRuns, promise,
                 worker, timer, last, inst, call>>

\* the main thread handles the message event of worker r
OnMessage(r) ==
  /\ workerEv[r].at = "raised"
  /\ workerEv[r].kind \in {"success", "error"}
  /\ Commit(onmessage([Cur EXCEPT !.workerEv[r] = Done], r, workerEv[r]))
  /\ last' = Last(IF workerEv[r].kind = "success" THEN "success" ELSE "error", r)
  /\ UNCHANGED nRuns

\* the main thread handles the error event of worker r
OnError(r) ==
  /\ workerEv[r].at = "raised"
  /\ workerEv[r].kind = "errorEvent"
  /\ Commit(onerror([Cur EXCEPT !.workerEv[r] = Done], r, workerEv[r]))
  /\ last' = Last("errorEvent", r)
  /\ UNCHANGED nRuns

\* the timer of run r expires
OnTimeout(r) ==
  /\ timer[r].st = "armed"
  /\ timer[r].left = 0
  /\ Commit(ontimeout([Cur EXCEPT !.timer[r] = Fired], r, timer[r].t))
  /\ last' = Last("timeout", r)
  /\ UNCHANGED nRuns

\* -------------------------------------------------- cancel(), clearError()
Cancel ==
  /\ Commit(cancel(Cur))
  /\ last' = Last("cancel", 0)
  /\ UNCHANGED nRuns

\* clearError() that writes a fresh idle state instead of spreading
clearError_ResetsState(s) == [s EXCEPT !.state = IdleState]

\* clearError()
clearError(s) == [s EXCEPT !.state = [s.state EXCEPT !.error = Null]]

ClearError ==
  /\ Commit(clearError(Cur))
  /\ last' = Last("clearError", 0)
  /\ UNCHANGED nRuns

\* one millisecond passes: every armed timer comes closer to being due
\* (a due timer fires before more time passes; with no timer armed the
\* passing of time changes nothing)
Tick ==
  /\ \E r \in Runs : timer[r].st = "armed"
  /\ \A r \in Runs : timer[r].st = "armed" => timer[r].left > 0
  /\ timer' = [r \in Runs |-> IF timer[r].st = "armed"
                               THEN [timer[r] EXCEPT !.left = @ - 1]
                               ELSE timer[r]]
  /\ UNCHANGED <<state, currentWorker, currentReject, timeoutId, nRuns, promise,
                 worker, workerEv, last, inst, call>>

Next ==
  \/ \E t \in TimeoutOpts, f \in FactoryOutcomes, ok \in BOOLEAN : Run(t, f, ok)
  \/ \E r \in Runs : WorkerResponds(r, "success", Null)
  \/ \E r \in Runs, e \in WorkerErrors : WorkerResponds(r, "error", e)
  \/ \E r \in Runs, e \in EventMessages : WorkerFails(r, e)
  \/ \E r \in Runs : OnMessage(r)
  \/ \E r \in Runs : OnError(r)
  \/ \E r \in Runs : OnTimeout(r)
  \/ Cancel
  \/ ClearError
  \/ Tick

Spec == Init /\ [][Next]_vars

TypeOK ==
  /\ state \in [isRunning : BOOLEAN, canCancel : BOOLEAN,
                error : STRING]
  /\ currentWorker \in 0..MaxRuns
  /\ currentReject \in 0..MaxRuns
  /\ timeoutId \in 0..MaxRuns
  /\ nRuns \in 0..MaxRuns

\* ------------------------------------------------------------ vocabulary
\* the promise of run r has settled
Settled(r) == promise[r].outcome \in {"resolved", "rejected"}

\* run r is in flight: the runner reports isRunning and holds the reject
\* function of run r (the test run() and cancel() make)
InFlight(r) == state.isRunning /\ currentReject = r

\* the promise of run r settled in one of the four documented ways
Tagged(r) ==
  \/ promise[r].outcome = "resolved"
  \/ promise[r].outcome = "rejected" /\ promise[r].code \in Codes

\* this step is a call of run()
RunStep == \E t \in TimeoutOpts, f \in FactoryOutcomes, ok \in BOOLEAN : Run(t, f, ok)

\* this step runs a handler of run r: its worker's message or error event,
\* or its timer
EventOf(r) == OnMessage(r) \/ OnError(r) \/ OnTimeout(r)

\* ------------------------------------------------------------------- C1
\* C1: every promise returned by run() settles at most once, and a settled
\* promise is resolved or rejected with code TIMEOUT, CANCELLED or
\* WORKER_ERROR; no other rejection occurs.
C1_OneTaggedSettlement ==
  /\ [](\A r \in Runs : Settled(r) => Tagged(r))
  /\ [][\A r \in Runs : Settled(r) => promise'[r] = promise[r]]_vars

\* ------------------------------------------------------------------- C2
\* C2: a run() made while an earlier run is in flight rejects the earlier
\* promise with CANCELLED, and the new run is not cancelled or left
\* unsettled by it: it has settled otherwise or is pending with the runner
\* running it.
C2_SupersedeCancelsEarlier ==
  [][\A r \in Runs :
       (InFlight(r) /\ RunStep) =>
          /\ promise'[r] = Rejected("CANCELLED", CancelMessage)
          /\ promise'[nRuns'].code # "CANCELLED"
          /\ promise'[nRuns'].outcome = "pending" =>
               ((state'.isRunning /\ currentReject' = nRuns') /\ worker'[nRuns'] = "working")]_vars

\* ------------------------------------------------------------------- C3
\* C3: once a newer run has started, no event of an earlier run (worker
\* message, worker error event, timer) settles the newer run's promise,
\* terminates its worker, clears its timer or changes RunnerState.
C3_NoStaleEffect ==
  [][\A r \in Runs :
       (r < nRuns /\ EventOf(r)) =>
          /\ promise'[nRuns] = promise[nRuns]
          /\ worker'[nRuns] = worker[nRuns]
          /\ timer'[nRuns] = timer[nRuns]
          /\ state' = state]_vars

\* ------------------------------------------------------------------- C4
\* C4: in a run with a positive timeout, once the timer or the worker has
\* determined the outcome, the other one arriving later is a no-op: it
\* settles nothing and leaves RunnerState (state.error included) unchanged.
C4_LoserIsNoOp ==
  [][\A r \in Runs :
       (/\ timer[r].st # "none"
        /\ promise[r].outcome = "resolved"
             \/ promise[r].code \in {"TIMEOUT", "WORKER_ERROR"}
        /\ EventOf(r)) =>
          (state' = state /\ promise' = promise)]_vars

\* ------------------------------------------------------------------- C5
LiveWorkers == {r \in Runs : Live(worker[r])}
ArmedTimers == {r \in Runs : timer[r].st = "armed"}

\* C5: the runner never has more than one live worker nor more than one
\* armed timer, and when a run has settled by success, worker error,
\* timeout, cancel or supersede, its worker is terminated and its timer is
\* no longer armed.
C5_OneWorkerOneTimer ==
  /\ Cardinality(LiveWorkers) <= 1
  /\ Cardinality(ArmedTimers) <= 1
  /\ \A r \in Runs : Tagged(r) => (~Live(worker[r]) /\ timer[r].st # "armed")

\* two runs that created a worker and armed a timer have settled, one by
\* cancel or supersede and one by its timer
C5_Witness ==
  /\ \E r \in Runs : promise[r].code = "CANCELLED" /\ worker[r] = "terminated"
                       /\ timer[r].st = "cleared"
  /\ \E r \in Runs : promise[r].code = "TIMEOUT" /\ worker[r] = "terminated"
                       /\ timer[r].st = "fired"

\* ------------------------------------------------------------------- C6
\* C6: when the promise of the latest run() has settled, by any path,
\* isRunning and canCancel are both false.
C6_SettledMeansIdle ==
  \A r \in Runs :
    (r = nRuns /\ Settled(r)) => (~state.isRunning /\ ~state.canCancel)

\* ------------------------------------------------------------------- C7
\* C7: when the timer of a run with timeout T > 0 expires before the worker
\* has responded, the promise rejects with TIMEOUT and the message for T,
\* state.error is that message, isRunning is false and the worker is
\* terminated.
C7_TimeoutRejects ==
  [][\A r \in Runs :
       OnTimeout(r) =>
          /\ promise'[r] = Rejected("TIMEOUT", TimeoutMessage(timer[r].t))
          /\ state' = RunnerState(FALSE, FALSE, TimeoutMessage(timer[r].t))
          /\ worker'[r] = "terminated"]_vars

C9_CancelInFlight ==
  [][\A r \in Runs :
       (InFlight(r) /\ Cancel) =>
          /\ promise'[r] = Rejected("CANCELLED", CancelMessage)
          /\ ~Live(worker'[r])
          /\ timer'[r].st # "armed"
          /\ state' = IdleState]_vars

\* ------------------------------------------------------------------ C10
\* C10: cancel() when no run is in flight settles no promise, terminates no
\* worker and leaves RunnerState unchanged, a recorded error included.
C10_CancelIdleNoOp ==
  [][((\A r \in Runs : ~InFlight(r)) /\ Cancel) =>
        UNCHANGED <<state, promise, worker, timer, workerEv,
                    currentWorker, currentReject, timeoutId>>]_vars

\* cancel() was the last call and the error of an earlier failed run is
\* still recorded
C10_Witness ==
  /\ last.op = "cancel"
  /\ ~state.isRunning
  /\ state.error # Null
  /\ \E r \in Runs : promise[r].code = "WORKER_ERROR"

\* ------------------------------------------------------------------ C11
\* C11: when the worker of the in-flight run fails, by posting an error
\* response with error E or by raising an error event that carries a
\* message E, the run's promise rejects with WORKER_ERROR and message E,
\* state.error equals E and isRunning becomes false.
C11_WorkerFailureRejects ==
  [][\A r \in Runs :
       (/\ InFlight(r)
        /\ \/ OnMessage(r) /\ workerEv[r].kind = "error"
           \/ OnError(r) /\ workerEv[r].msg # "") =>
          /\ promise'[r] = Rejected("WORKER_ERROR", workerEv[r].msg)
          /\ state'.error = workerEv[r].msg
          /\ ~state'.isRunning]_vars

\* ------------------------------------------------------------------ C12
\* C12: when the worker factory throws during run(), the promise is
\* rejected with WORKER_ERROR and a message containing the factory's
\* message by the time run() returns, no timer is armed, no worker exists
\* for the run and no request is posted, and RunnerState is
\* {isRunning: false, canCancel: false, error: that message}.
C12_FactoryFailure ==
  [][\A t \in TimeoutOpts, f \in FactoryOutcomes \ {"ok"}, ok \in BOOLEAN :
       Run(t, f, ok) =>
          /\ promise'[nRuns'] = Rejected("WORKER_ERROR", CreateMessage(f))
          /\ ArmedTimers' = {}
          /\ timeoutId' = 0
          /\ worker'[nRuns'] = "none"
          /\ \A r \in Runs : worker'[r] # "working"
          /\ state' = RunnerState(FALSE, FALSE, CreateMessage(f))]_vars

\* the factory failed on a run() that superseded a run with an armed timer
\* and a posted request
C12_Witness ==
  /\ last = Last("run", 2)
  /\ promise[2].code = "WORKER_ERROR"
  /\ worker[2] = "none"
  /\ promise[1].code = "CANCELLED"
  /\ timer[1].st = "cleared"
  /\ worker[1] = "terminated"
  /\ state.error = CreateMessage("no worker")

\* ------------------------------------------------------------------ C13
\* C13: clearError() sets state.error to null and leaves isRunning,
\* canCancel, the in-flight run's promise, the worker and the timer
\* unchanged; with error already null it changes nothing, and a second
\* clearError() changes nothing after the first.
C13_ClearErrorFrame ==
  /\ [][ClearError =>
          /\ state' = [state EXCEPT !.error = Null]
          /\ state.error = Null => state' = state
          /\ UNCHANGED <<promise, worker, timer, workerEv, currentWorker,
                         currentReject, timeoutId, nRuns>>]_vars
  /\ [](clearError(clearError(Cur)) = clearError(Cur))

\* clearError() removed the error that the timeout of the latest run had
\* recorded
C13_Witness ==
  /\ last.op = "clearError"
  /\ nRuns > 0
  /\ promise[nRuns].code = "TIMEOUT"
  /\ state = IdleState

\* ------------------------------------------------------------------ C14
\* C14: in every reachable state canCancel equals isRunning and error is
\* non-null only while isRunning is false (Idle without error, Idle with
\* error, or Running with error null); run() enters Running with error
\* null whatever the previous error was, and stays there when the worker
\* was created.
C14_StateShape ==
  /\ [](/\ state.canCancel = state.isRunning
        /\ state.error # Null => ~state.isRunning)
  /\ [][\A t \in TimeoutOpts, f \in FactoryOutcomes, ok \in BOOLEAN :
          Run(t, f, ok) =>
             /\ enterRunning(Cur, nRuns').state = RunnerState(TRUE, TRUE, Null)
             /\ f = "ok" => state' = RunnerState(TRUE, TRUE, Null)]_vars

\* the second run() is running while the first run ended with an error
C14_Witness ==
  /\ last = Last("run", 2)
  /\ state = RunnerState(TRUE, TRUE, Null)
  /\ promise[1].code \in {"TIMEOUT", "WORKER_ERROR"}
  /\ promise[2].outcome = "pending"

\* ======================================================================
\* A set of runners: HomeView creates one runner per algorithm with
\* createAlgorithmRunner() and runs them side by side.  inst[e] is the data
\* of one closure environment; the handlers are the runner's handlers above,
\* applied to the environment of the runner they belong to.

\* the variables shared by every runner when they are declared outside
\* createAlgorithmRunner()
envOf_Shared(i) == 1

\* createAlgorithmRunner(): each call declares its own state,
\* currentWorker, currentReject and timeoutId
envOf(i) == i

\* the data runner i works on
View(i) == inst[envOf(i)]

Put(i, s) ==
  /\ inst' = [inst EXCEPT ![envOf(i)] = s]
  /\ UNCHANGED <<runnerVars, call>>

\* the inputs tried on a set of runners: no timeout or the longest one, and
\* an error event without message
SetTimeoutOpts == {Undefined, MaxTimeout}
SetEventMessages == {""}

\* run() calls made so far on all runners
TotalRuns == inst[1].nRuns + inst[2].nRuns

IRun(i, t, f, serialisable) ==
  /\ TotalRuns < MaxRuns
  /\ LET r == View(i).nRuns + 1
     IN Put(i, [run(View(i), r, t, f, serialisable) EXCEPT !.nRuns = r])

IWorkerResponds(i, r, kind, msg) ==
  /\ View(i).worker[r] = "working"
  /\ View(i).workerEv[r].at = "idle"
  /\ Put(i, [View(i) EXCEPT !.workerEv[r] = Raised(kind, msg)])

IWorkerFails(i, r, msg) ==
  /\ Live(View(i).worker[r])
  /\ View(i).workerEv[r].at = "idle"
  /\ Put(i, [View(i) EXCEPT !.workerEv[r] = Raised("errorEvent", msg)])

IOnMessage(i, r) ==
  /\ View(i).workerEv[r].at = "raised"
  /\ View(i).workerEv[r].kind \in {"success", "error"}
  /\ Put(i, onmessage([View(i) EXCEPT !.workerEv[r] = Done], r,
                      View(i).workerEv[r]))

IOnError(i, r) ==
  /\ View(i).workerEv[r].at = "raised"
  /\ View(i).workerEv[r].kind = "errorEvent"
  /\ Put(i, onerror([View(i) EXCEPT !.workerEv[r] = Done], r,
                    View(i).workerEv[r]))

IOnTimeout(i, r) ==
  /\ View(i).timer[r].st = "armed"
  /\ View(i).timer[r].left = 0
  /\ Put(i, ontimeout([View(i) EXCEPT !.timer[r] = Fired], r,
                      View(i).timer[r].t))

ICancel(i) == Put(i, cancel(View(i)))

IClearError(i) == Put(i, clearError(View(i)))

\* one millisecond passes for the timers of every runner
ITick ==
  /\ \E e \in Instances, r \in Runs : inst[e].timer[r].st = "armed"
  /\ \A e \in Instances, r \in Runs :
        inst[e].timer[r].st = "armed" => inst[e].timer[r].left > 0
  /\ inst' = [e \in Instances |->
                [inst[e] EXCEPT !.timer =
                   [r \in Runs |-> IF inst[e].timer[r].st = "armed"
                                   THEN [inst[e].timer[r] EXCEPT !.left = @ - 1]
                                   ELSE inst[e].timer[r]]]]
  /\ UNCHANGED <<runnerVars, call>>

NextRunners ==
  \/ \E i \in Instances, t \in SetTimeoutOpts, f \in FactoryOutcomes,
        ok \in BOOLEAN : IRun(i, t, f, ok)
  \/ \E i \in Instances, r \in Runs : IWorkerResponds(i, r, "success", Null)
  \/ \E i \in Instances, r \in Runs, e \in WorkerErrors :
        IWorkerResponds(i, r, "error", e)
  \/ \E i \in Instances, r \in Runs, e \in SetEventMessages :
        IWorkerFails(i, r, e)
  \/ \E i \in Instances, r \in Runs : IOnMessage(i, r)
  \/ \E i \in Instances, r \in Runs : IOnError(i, r)
  \/ \E i \in Instances, r \in Runs : IOnTimeout(i, r)
  \/ \E i \in Instances : ICancel(i)
  \/ \E i \in Instances : IClearError(i)
  \/ ITick

SpecRunners == Init /\ [][NextRunners]_vars

\* this step is a call on runner i or an event of one of its runs
StepOf(i) ==
  \/ \E t \in SetTimeoutOpts, f \in FactoryOutcomes, ok \in BOOLEAN :
        IRun(i, t, f, ok)
  \/ ICancel(i)
  \/ IClearError(i)
  \/ \E r \in Runs : IOnMessage(i, r) \/ IOnError(i, r) \/ IOnTimeout(i, r)
  \/ \E r \in Runs : IWorkerResponds(i, r, "success", Null)
  \/ \E r \in Runs, e \in WorkerErrors : IWorkerResponds(i, r, "error", e)
  \/ \E r \in Runs, e \in SetEventMessages : IWorkerFails(i, r, e)

\* ------------------------------------------------------------------ C15
\* C15: runners created by separate createAlgorithmRunner() calls are
\* independent: run(), cancel(), clearError() and every settlement or
\* worker event on one runner leave the RunnerState, the references, the
\* workers, the timers and the promises of every other runner unchanged,
\* in every interleaving.
C15_RunnersIndependent ==
  [][\A i \in Instances :
       StepOf(i) => \A j \in Instances \ {i} : View(j)' = View(j)]_vars

\* runner 1 has timed out while the run of runner 2 is pending with its
\* worker live and its timer armed
C15_Witness ==
  /\ View(1).promise[1].code = "TIMEOUT"
  /\ View(1).state.error # Null
  /\ View(2).state = RunnerState(TRUE, TRUE, Null)
  /\ View(2).promise[1].outcome = "pending"
  /\ View(2).worker[1] = "working"
  /\ View(2).timer[1].st = "armed"

\* ======================================================================
\* The algorithm worker: self.onmessage and the algorithm registry.

\* the keys of the registry object `algorithms`
AlgorithmNames == {"naive", "kopt", "nearestNeighbour", "genetic", "antColony",
                   "simulatedAnnealing", "grasp"}

\* property names every plain object inherits from Object.prototype
ObjectPrototypeKeys == {"constructor", "toString", "__proto__"}

\* names a request can carry: registered, inherited, or neither
RequestedNames == AlgorithmNames \cup ObjectPrototypeKeys \cup {"", "twoOpt"}

\* message types a request can carry
RequestTypes == {"run", "stop"}

\* what algorithm.solve(graph, config) does: it returns a result or throws
\* an Error with a message, a string, or a number
Returns == [kind |-> "returns", text |-> Null, num |-> 0]
ThrowsError(m) == [kind |-> "error", text |-> m, num |-> 0]
ThrowsString(m) == [kind |-> "string", text |-> m, num |-> 0]
ThrowsNumber(n) == [kind |-> "number", text |-> Null, num |-> n]
SolveOutcomes == {Returns, ThrowsError("Maximum call stack size exceeded"),
                  ThrowsError(""), ThrowsString("stop"), ThrowsNumber(4)}

\* algorithms[name]: the registered algorithm, a member inherited from
\* Object.prototype, or undefined
getAlgorithm(name) ==
  IF name \in AlgorithmNames THEN "algorithm"
  ELSE IF name \in ObjectPrototypeKeys THEN "inherited"
  ELSE "undefined"

SuccessResponse == [type |-> "success", error |-> Null]
ErrorResponse(e) == [type |-> "error", error |-> e]

\* err instanceof Error ? err.message : String(err)
FaultMessage(o) ==
  CASE o.kind = "error" -> o.text
    [] o.kind = "string" -> o.text
    [] OTHER -> Digit(o.num)

\* calling solve on a value that has no such method
NotAFunction == ThrowsError("algorithm.solve is not a function")

\* self.onmessage: the responses it posts, in order, for the request
\* {type, algorithmName, graph, config} when solve behaves as `solve`
selfOnmessage(type, algorithmName, solve) ==
  IF type # "run"
  THEN <<ErrorResponse("Unknown message type: " \o type)>>
  ELSE LET algorithm == getAlgorithm(algorithmName)
           outcome == IF algorithm = "inherited" THEN NotAFunction ELSE solve
       IN IF algorithm = "undefined"
          THEN <<ErrorResponse("Algorithm not found: " \o algorithmName)>>
          ELSE IF outcome.kind = "returns"
               THEN <<SuccessResponse>>
               ELSE <<ErrorResponse(FaultMessage(outcome))>>

\* the worker receives a request and handles it
WorkerOnMessage(type, algorithmName, solve) ==
  /\ call' = [fn |-> "self.onmessage",
              arg |-> [type |-> type, algorithmName |-> algorithmName,
                       solve |-> solve],
              ret |-> selfOnmessage(type, algorithmName, solve)]
  /\ UNCHANGED <<runnerVars, inst>>

NextWorker ==
  \E type \in RequestTypes, name \in RequestedNames, solve \in SolveOutcomes :
     WorkerOnMessage(type, name, solve)

SpecWorker == Init /\ [][NextWorker]_vars

\* ------------------------------------------------------------------ C16
\* C16: for each 'run' request the worker posts exactly one response: the
\* error 'Algorithm not found: <name>' for every name that is not a key of
\* the registry, the error with the fault's message when solve throws, and
\* success otherwise.
C16_OneResponsePerRequest ==
  (call.fn = "self.onmessage" /\ call.arg.type = "run") =>
     /\ Len(call.ret) = 1
     /\ call.ret[1] =
          IF call.arg.algorithmName \notin AlgorithmNames
          THEN ErrorResponse("Algorithm not found: " \o call.arg.algorithmName)
          ELSE IF call.arg.solve.kind # "returns"
               THEN ErrorResponse(FaultMessage(call.arg.solve))
               ELSE SuccessResponse

\* ======================================================================
\* The heuristics: solve(graph, config) of the seven registered algorithms.
\* Coordinates are integers chosen so that every distance between two
\* nodes is an integer; sums of distances are then exact.

MaxNodes == 4         \* largest number of nodes of a graph
MaxIterations == 2    \* largest iteration count a config asks for

Node(id, x, y) == [id |-> id, x |-> x, y |-> y]

\* the centre and the corners of a rhombus with diagonals 6 and 8
Points == <<Node("a", 3, 4), Node("b", 6, 4), Node("c", 3, 8),
            Node("d", 0, 4), Node("e", 3, 0)>>

\* the orders in which a graph lists the points
Orders == {<<1, 2, 3, 4, 5>>, <<2, 4, 1, 5, 3>>, <<5, 3, 2, 1, 4>>}

Min(a, b) == IF a < b THEN a ELSE b

\* graph.nodes: the first n points of an order
NodesOf(o, n) == [i \in 1..n |-> Points[o[i]]]
Graphs == {NodesOf(o, n) : o \in Orders, n \in 0..Min(MaxNodes, Len(Points))}

\* Graphs for the local searches, which need six nodes for a 3-opt move
\* and eight for a 4-opt move: points on the axes at distances 5, 9, 12
\* and 16 from the origin (5-12-13, 9-12-15 and 12-16-20 triangles)
MaxLargeNodes == 6    \* smallest number of nodes of a large graph

LargeGraphs ==
  LET points == <<Node("p", 9, 0), Node("q", 0, 12), Node("r", 0, -12),
                  Node("s", 5, 0), Node("t", -5, 0), Node("u", -9, 0),
                  Node("v", 0, 0), Node("w", 16, 0)>>
      orders == {<<1, 2, 3, 4, 5, 6, 7, 8>>, <<1, 2, 3, 4, 5, 7, 6, 8>>,
                 <<1, 2, 3, 4, 6, 7, 5, 8>>, <<1, 2, 3, 5, 6, 8, 4, 7>>,
                 <<7, 2, 4, 5, 6, 8, 1, 3>>}
  IN {[i \in 1..n |-> points[o[i]]] :
        o \in orders, n \in {Min(MaxLargeNodes, Len(points)), Len(points)}}

\* Infinity: larger than every tour length
Infinity == 1000000

\* Math.sqrt on the squares that occur
Sqrt(k) == CHOOSE r \in 0..k : r * r = k

\* distance(a, b)
distance(a, b) ==
  LET dx == b.x - a.x
      dy == b.y - a.y
  IN Sqrt(dx * dx + dy * dy)

\* tourDistance(tour): the length of the closed tour
tourDistance(tour) ==
  LET n == Len(tour)
      total[i \in 0..n] ==
        IF i = 0 THEN 0
        ELSE IF i < n THEN total[i - 1] + distance(tour[i], tour[i + 1])
        ELSE total[i - 1] + distance(tour[n], tour[1])
  IN IF n < 2 THEN 0 ELSE total[n]

Reverse(s) == [i \in 1..Len(s) |-> s[Len(s) + 1 - i]]

\* tour.slice(from, to) with 0-based from (inclusive) and to (exclusive)
Slice(s, from, to) == SubSeq(s, from + 1, Min(to, Len(s)))

\* the smallest element of a non-empty set of integers
Least(S) == CHOOSE m \in S : \A x \in S : m <= x

\* the loop of nearestNeighborTour: append the unvisited node nearest to
\* the current one (the first of equal minima in index order) until none
\* is left
\* the loop with dist <= nearestDist: the last of equal minima wins
RECURSIVE nearestLoop_LastMinimum(_, _, _, _)
nearestLoop_LastMinimum(nodes, currentIdx, unvisited, tour) ==
  IF unvisited = {} THEN tour
  ELSE LET dist(i) == distance(nodes[currentIdx], nodes[i])
           nearestDist == Least({dist(i) : i \in unvisited})
           nearest == {i \in unvisited : dist(i) = nearestDist}
           nearestIdx == CHOOSE i \in nearest : \A x \in nearest : x <= i
       IN nearestLoop_LastMinimum(nodes, nearestIdx, unvisited \ {nearestIdx},
                                  Append(tour, nodes[nearestIdx]))

RECURSIVE nearestLoop(_, _, _, _)
nearestLoop(nodes, currentIdx, unvisited, tour) ==
  IF unvisited = {} THEN tour
  ELSE LET dist(i) == distance(nodes[currentIdx], nodes[i])
           nearestDist == Least({dist(i) : i \in unvisited})
           nearestIdx == Least({i \in unvisited : dist(i) = nearestDist})
       IN nearestLoop(nodes, nearestIdx, unvisited \ {nearestIdx},
                      Append(tour, nodes[nearestIdx]))

\* nearestNeighborTour(nodes)
nearestNeighborTour(nodes) ==
  IF Len(nodes) = 0 THEN <<>>
  ELSE IF Len(nodes) = 1 THEN <<nodes[1]>>
  ELSE nearestLoop(nodes, 1, (1..Len(nodes)) \ {1}, <<nodes[1]>>)

\* a Result: the path and performance.distance
Result(path, dist) == [path |-> path, distance |-> dist]

\* [...tour, tour[0]]: tour[0] of an empty tour is undefined
UndefinedNode == Node("undefined", 0, 0)
Closed(tour) == Append(tour, IF Len(tour) = 0 THEN UndefinedNode ELSE tour[1])

\* --------------------------------------------------------------- naive
\* arr without its i-th element (0-based)
Without(arr, i) == Slice(arr, 0, i) \o Slice(arr, i + 1, Len(arr))

\* permute(arr): every ordering of arr, in the order the recursion
\* generates them
RECURSIVE permute(_)
permute(arr) ==
  IF Len(arr) = 0 THEN << <<>> >>
  ELSE LET n == Len(arr)
           from(i) == LET ps == permute(Without(arr, i))
                      IN [k \in 1..Len(ps) |-> <<arr[i + 1]>> \o ps[k]]
           result[i \in 0..n] ==
             IF i = 0 THEN <<>> ELSE result[i - 1] \o from(i - 1)
       IN result[n]

\* the inner loop without the edge from the last node back to perm[0]
naiveTotal_OpenPath(perm) ==
  LET n == Len(perm)
      total[i \in 0..n] ==
        IF i = 0 \/ i = n THEN IF i = 0 THEN 0 ELSE total[i - 1]
        ELSE total[i - 1] + distance(perm[i], perm[i + 1])
  IN total[n]

\* the inner loop of naive solve: the sum of distance(perm[i],
\* perm[(i + 1) % n]) for i < n
naiveTotal(perm) ==
  LET n == Len(perm)
      total[i \in 0..n] ==
        IF i = 0 THEN 0
        ELSE total[i - 1] + distance(perm[i], perm[(i % n) + 1])
  IN total[n]

\* naive solve closing the best ordering whatever its length
naiveSolve_AlwaysClosed(nodes) ==
  LET perms == permute(nodes)
      totals == [k \in 1..Len(perms) |-> naiveTotal(perms[k])]
      minDistance == Least({totals[k] : k \in 1..Len(perms)})
      bestPath == perms[Least({k \in 1..Len(perms) : totals[k] = minDistance})]
  IN IF Len(nodes) = 0 THEN Result(<<>>, 0)
     ELSE Result(Closed(bestPath), minDistance)

\* naiveAlgorithm.solve(graph).  The loop replaces the best ordering
\* whenever an ordering has a strictly smaller total, so it ends with the
\* first ordering that has the smallest total.
naiveSolve(nodes) ==
  LET perms == permute(nodes)
      totals == [k \in 1..Len(perms) |-> naiveTotal(perms[k])]
      minDistance == Least({totals[k] : k \in 1..Len(perms)})
      bestPath == perms[Least({k \in 1..Len(perms) : totals[k] = minDistance})]
  IN IF Len(nodes) = 0 THEN Result(<<>>, 0)
     ELSE IF Len(bestPath) > 1
          THEN Result(Closed(bestPath), minDistance)
          ELSE Result(bestPath, minDistance)

\* --------------------------------------------------------------- k-opt
\* twoOptSwap of kopt.ts: the tour with positions i..j reversed
koptTwoOptSwap(tour, i, j) ==
  Slice(tour, 0, i) \o Reverse(Slice(tour, i, j + 1)) \o
  Slice(tour, j + 1, Len(tour))

\* one pass of the for loops of optimize2Opt, from position (i, j) on:
\* trace holds the tours accepted so far, the last one being currentTour.
\* A candidate is accepted when it is shorter by more than 1e-10, which
\* for integer lengths is when it is shorter.
RECURSIVE pass2Opt(_, _, _)
pass2Opt(trace, i, j) ==
  LET currentTour == trace[Len(trace)]
      len == Len(currentTour)
  IN IF i >= len - 1 THEN trace
     ELSE IF j >= len THEN pass2Opt(trace, i + 1, i + 3)
     ELSE LET newTour == koptTwoOptSwap(currentTour, i + 1, j)
          IN IF tourDistance(newTour) < tourDistance(currentTour)
             THEN pass2Opt(Append(trace, newTour), i, j + 1)
             ELSE pass2Opt(trace, i, j + 1)

\* the loops of optimize2Opt run once, without while (improved)
while2Opt_SinglePass(trace) == pass2Opt(trace, 0, 2)

\* while (improved): passes are repeated until one accepts nothing
RECURSIVE while2Opt(_)
while2Opt(trace) ==
  LET next == pass2Opt(trace, 0, 2)
  IN IF Len(next) > Len(trace) THEN while2Opt(next) ELSE next

\* optimize2Opt(tour), as the sequence of tours it goes through
optimize2Opt(tour) ==
  IF Len(tour) < 4 THEN <<tour>> ELSE while2Opt(<<tour>>)

\* generate3OptCandidates(tour, i, j, k)
generate3OptCandidates(tour, i, j, k) ==
  LET A == Slice(tour, 0, i + 1)
      B == Slice(tour, i + 1, j + 1)
      C == Slice(tour, j + 1, k + 1)
      D == Slice(tour, k + 1, Len(tour))
  IN << A \o Reverse(B) \o C \o D,
        A \o B \o Reverse(C) \o D,
        A \o Reverse(B) \o Reverse(C) \o D,
        A \o C \o B \o D,
        A \o C \o Reverse(B) \o D,
        A \o Reverse(C) \o B \o D,
        A \o Reverse(C) \o Reverse(B) \o D >>

\* the candidate loop of optimize3Opt: each candidate shorter than the
\* best so far becomes currentTour
RECURSIVE try3Opt(_, _, _)
try3Opt(trace, candidates, c) ==
  IF c > Len(candidates) THEN trace
  ELSE IF tourDistance(candidates[c]) < tourDistance(trace[Len(trace)])
       THEN try3Opt(Append(trace, candidates[c]), candidates, c + 1)
       ELSE try3Opt(trace, candidates, c + 1)

\* one pass of the for loops of optimize3Opt, from position (i, j, k) on
RECURSIVE pass3Opt(_, _, _, _)
pass3Opt(trace, i, j, k) ==
  LET currentTour == trace[Len(trace)]
      len == Len(currentTour)
  IN IF i >= len - 4 THEN trace
     ELSE IF j >= len - 2 THEN pass3Opt(trace, i + 1, i + 3, i + 5)
     ELSE IF k >= len THEN pass3Opt(trace, i, j + 1, j + 3)
     ELSE pass3Opt(try3Opt(trace,
                           generate3OptCandidates(currentTour, i, j, k), 1),
                   i, j, k + 1)

RECURSIVE while3Opt(_)
while3Opt(trace) ==
  LET next == pass3Opt(trace, 0, 2, 4)
  IN IF Len(next) > Len(trace) THEN while3Opt(next) ELSE next

\* optimize3Opt(tour), as the sequence of tours it goes through
optimize3Opt(tour) ==
  IF Len(tour) < 6 THEN optimize2Opt(tour) ELSE while3Opt(<<tour>>)

\* the concatenation of the sequences in a sequence of sequences
RECURSIVE Flat(_)
Flat(ss) == IF Len(ss) = 0 THEN <<>> ELSE Head(ss) \o Flat(Tail(ss))

\* generate(current, start) of generateKOptPositions(n, k): the ways to
\* complete current to k positions that are at least minGap = 2 apart
RECURSIVE generate(_, _, _, _)
generate(n, k, current, start) ==
  IF Len(current) = k THEN <<current>>
  ELSE LET remaining == k - Len(current)
           maxStart == n - remaining * 2
       IN Flat([i \in 1..(IF maxStart < start THEN 0 ELSE maxStart - start + 1) |->
                  generate(n, k, Append(current, start + i - 1), start + i + 1)])

\* positions.length > 1000: every step-th combination is kept
SampleLimit == 1000

\* generateKOptPositions(n, k) for an integer k >= 0
generateKOptPositions(n, k) ==
  LET positions == generate(n, k, <<>>, 0)
      step == Len(positions) \div SampleLimit
  IN IF Len(positions) > SampleLimit
     THEN [m \in 1..((Len(positions) + step - 1) \div step) |->
             positions[(m - 1) * step + 1]]
     ELSE positions

\* the segments generateKOptCandidates cuts the tour into
RECURSIVE segmentsFrom(_, _, _)
segmentsFrom(tour, positions, prevPos) ==
  IF Len(positions) = 0
  THEN IF prevPos < Len(tour) THEN <<Slice(tour, prevPos, Len(tour))>> ELSE <<>>
  ELSE <<Slice(tour, prevPos, Head(positions) + 1)>> \o
       segmentsFrom(tour, Tail(positions), Head(positions) + 1)

\* arr with the elements at 0-based positions a and b exchanged
Swap(arr, a, b) ==
  [arr EXCEPT ![a + 1] = arr[b + 1], ![b + 1] = arr[a + 1]]

\* 2 to the power m
RECURSIVE Pow2(_)
Pow2(m) == IF m = 0 THEN 1 ELSE 2 * Pow2(m - 1)

\* the arrangements of the segments in the order arr, one per reversal
\* mask: bit i of the mask reverses the i-th segment of the arrangement
withReversals(segments, arr) ==
  [m \in 1..Pow2(Len(arr)) |->
     [i \in 1..Len(arr) |->
        IF ((m - 1) \div Pow2(i - 1)) % 2 = 1
        THEN Reverse(segments[arr[i]])
        ELSE segments[arr[i]]]]

\* permute(arr, start) of generateSegmentPermutations
RECURSIVE permuteSegments(_, _, _)
permuteSegments(segments, arr, start) ==
  IF start = Len(arr) THEN withReversals(segments, arr)
  ELSE Flat([i \in 1..(Len(arr) - start) |->
               permuteSegments(segments, Swap(arr, start, start + i - 1),
                               start + 1)])

\* results.length > 100: only the first 100 are kept
PermutationLimit == 100

\* generateSegmentPermutations(segments)
generateSegmentPermutations(segments) ==
  IF Len(segments) = 0 THEN << <<>> >>
  ELSE IF Len(segments) = 1
       THEN << <<segments[1]>>, <<Reverse(segments[1])>> >>
       ELSE LET results == permuteSegments(segments,
                                           [i \in 1..Len(segments) |-> i], 0)
            IN IF Len(results) > PermutationLimit
               THEN SubSeq(results, 1, PermutationLimit)
               ELSE results

\* the elements of s that satisfy keep, in order
RECURSIVE SelectLen(_, _)
SelectLen(ss, len) ==
  IF Len(ss) = 0 THEN <<>>
  ELSE IF Len(Head(ss)) = len THEN <<Head(ss)>> \o SelectLen(Tail(ss), len)
       ELSE SelectLen(Tail(ss), len)

\* generateKOptCandidates(tour, positions)
generateKOptCandidates(tour, positions) ==
  LET segments == segmentsFrom(tour, positions, 0)
      middleSegments == SubSeq(segments, 2, Len(segments) - 1)
      permutations == generateSegmentPermutations(middleSegments)
      newTour(perm) == segments[1] \o Flat(perm) \o segments[Len(segments)]
  IN SelectLen([c \in 1..Len(permutations) |-> newTour(permutations[c])],
               Len(tour))

\* the while loop of optimizeKOpt: the first candidate, in the order of
\* the positions, that is shorter than currentTour replaces it and the
\* search starts again
RECURSIVE whileKOpt(_, _)
whileKOpt(trace, positions) ==
  LET currentTour == trace[Len(trace)]
      candidates == Flat([m \in 1..Len(positions) |->
                            generateKOptCandidates(currentTour, positions[m])])
      shorter == {c \in 1..Len(candidates) :
                    tourDistance(candidates[c]) < tourDistance(currentTour)}
  IN IF shorter = {} THEN trace
     ELSE whileKOpt(Append(trace, candidates[Least(shorter)]), positions)

\* optimizeKOpt(tour, k) for an integer k >= 0, as the sequence of tours it
\* goes through
optimizeKOpt(tour, k) ==
  IF Len(tour) < 2 * k THEN optimize3Opt(tour)
  ELSE whileKOpt(optimize3Opt(tour), generateKOptPositions(Len(tour), k))

\* the tours koptAlgorithm.solve goes through for an integer
\* config.k >= 0, from the nearest-neighbour tour to the one it returns
koptTrace(nodes, config) ==
  LET k == IF config.k = Undefined THEN 2 ELSE config.k
      tour == nearestNeighborTour(nodes)
  IN IF k = 2 THEN optimize2Opt(tour)
     ELSE IF k = 3 THEN optimize3Opt(tour)
     ELSE optimizeKOpt(tour, k)

\* koptAlgorithm.solve(graph, config)
koptSolve(nodes, config) ==
  IF Len(nodes) = 0 THEN Result(<<>>, 0)
  ELSE IF Len(nodes) = 1 THEN Result(<<nodes[1]>>, 0)
  ELSE LET trace == koptTrace(nodes, config)
           tour == trace[Len(trace)]
       IN Result(Closed(tour), tourDistance(tour))

\* --------------------------------------------------- nearest neighbour
\* nearestNeighbourAlgorithm.solve(graph)
nearestNeighbourSolve(nodes) ==
  IF Len(nodes) = 0 THEN Result(<<>>, 0)
  ELSE IF Len(nodes) = 1 THEN Result(<<nodes[1]>>, 0)
  ELSE LET tour == nearestNeighborTour(nodes)
       IN Result(Closed(tour), tourDistance(tour))

\* ------------------------------------------------- simulated annealing
Max(a, b) == IF a > b THEN a ELSE b

\* what solve returns before any search for a graph of fewer than three
\* nodes: the nodes themselves, closed when there are two
earlyResult(nodes) ==
  IF Len(nodes) = 0 THEN Result(<<>>, 0)
  ELSE IF Len(nodes) = 1 THEN Result(<<nodes[1]>>, 0)
  ELSE Result(<<nodes[1], nodes[2], nodes[1]>>,
              tourDistance(<<nodes[1], nodes[2]>>))

\* twoOptSwap of simulated-annealing.ts: positions left and right are
\* exchanged from i and j inwards
saTwoOptSwap(tour, i, j) ==
  [p \in 1..Len(tour) |->
     IF i + 1 <= p /\ p <= j + 1 THEN tour[i + j + 2 - p] ELSE tour[p]]

\* calculateDelta of simulated-annealing.ts
saCalculateDelta(tour, i, j) ==
  LET n == Len(tour)
      a == IF i > 0 THEN tour[i] ELSE tour[n]
      b == tour[i + 1]
      c == tour[j + 1]
      d == tour[((j + 1) % n) + 1]
      oldAB == distance(a, b)
      oldCD == distance(c, d)
      newAC == distance(a, c)
      newBD == distance(b, d)
  IN (newAC + newBD) - (oldAB + oldCD)

\* the variables of simulatedAnnealing.solve before its loop.  The
\* temperature is counted in coolings: config.coolings is the number of
\* multiplications by coolingRate that leave it above minTemperature.
saStart(nodes, config) ==
  LET currentTour == nearestNeighborTour(nodes)
  IN [currentTour |-> currentTour,
      currentDistance |-> tourDistance(currentTour),
      bestTour |-> currentTour,
      bestDistance |-> tourDistance(currentTour),
      temperature |-> config.coolings,
      iteration |-> 0]

\* while (temperature > minTemperature && iteration < maxIterations)
saContinues(st, config) ==
  st.temperature > 0 /\ st.iteration < config.maxIterations

\* the loop with the best tour following the current one
saIterate_BestFollowsCurrent(st, ri, rj, accept) ==
  LET i == Min(ri, rj)
      j == Max(ri, rj)
      delta == saCalculateDelta(st.currentTour, i, j)
      newTour == saTwoOptSwap(st.currentTour, i, j)
      newDistance == st.currentDistance + delta
      cooled == [st EXCEPT !.temperature = @ - 1, !.iteration = @ + 1]
  IN IF i = j \/ i + 1 = j THEN [st EXCEPT !.iteration = @ + 1]
     ELSE IF delta < 0 \/ delta = 0 \/ accept
          THEN [cooled EXCEPT !.currentTour = newTour,
                              !.currentDistance = newDistance,
                              !.bestTour = newTour,
                              !.bestDistance = newDistance]
          ELSE cooled

\* one iteration of the loop: ri and rj are the two random positions and
\* accept says whether Math.random() < Math.exp(-delta / temperature),
\* which a delta of 0 makes true whatever the random number
saIterate(st, ri, rj, accept) ==
  LET i == Min(ri, rj)
      j == Max(ri, rj)
      delta == saCalculateDelta(st.currentTour, i, j)
      newTour == saTwoOptSwap(st.currentTour, i, j)
      newDistance == st.currentDistance + delta
      cooled == [st EXCEPT !.temperature = @ - 1, !.iteration = @ + 1]
  IN IF i = j \/ i + 1 = j THEN [st EXCEPT !.iteration = @ + 1]
     ELSE IF delta < 0 \/ delta = 0 \/ accept
          THEN IF newDistance < st.bestDistance
               THEN [cooled EXCEPT !.currentTour = newTour,
                                   !.currentDistance = newDistance,
                                   !.bestTour = newTour,
                                   !.bestDistance = newDistance]
               ELSE [cooled EXCEPT !.currentTour = newTour,
                                   !.currentDistance = newDistance]
          ELSE cooled

\* --------------------------------------------------------------- GRASP
Greatest(S) == CHOOSE m \in S : \A x \in S : m >= x

\* the while loop with the filter c.dist <= minDist
RECURSIVE graspExtend_NearestOnly(_, _, _, _)
graspExtend_NearestOnly(nodes, alpha, tour, unvisited) ==
  IF unvisited = {} THEN {tour}
  ELSE LET currentIdx == tour[Len(tour)]
           dist(idx) == distance(nodes[currentIdx], nodes[idx])
           minDist == Least({dist(idx) : idx \in unvisited})
           maxDist == Greatest({dist(idx) : idx \in unvisited})
           rcl == {idx \in unvisited :
                     100 * dist(idx) <= 100 * minDist + 0 * alpha * (maxDist - minDist)}
       IN UNION {graspExtend_NearestOnly(nodes, alpha, Append(tour, idx),
                                         unvisited \ {idx}) : idx \in rcl}

\* the while loop of graspConstruction: the tours of indices that extend
\* tour by a member of the restricted candidate list at every step.
\* alpha is in hundredths.
RECURSIVE graspExtend(_, _, _, _)
graspExtend(nodes, alpha, tour, unvisited) ==
  IF unvisited = {} THEN {tour}
  ELSE LET currentIdx == tour[Len(tour)]
           dist(idx) == distance(nodes[currentIdx], nodes[idx])
           minDist == Least({dist(idx) : idx \in unvisited})
           maxDist == Greatest({dist(idx) : idx \in unvisited})
           rcl == {idx \in unvisited :
                     100 * dist(idx) <= 100 * minDist + alpha * (maxDist - minDist)}
       IN UNION {graspExtend(nodes, alpha, Append(tour, idx), unvisited \ {idx}) :
                   idx \in rcl}

\* graspConstruction(nodes, alpha): the tours it can return
graspConstruction(nodes, alpha) ==
  LET n == Len(nodes)
      indexTours == UNION {graspExtend(nodes, alpha, <<startIdx>>,
                                       (1..n) \ {startIdx}) : startIdx \in 1..n}
  IN IF n = 0 THEN {<<>>}
     ELSE IF n = 1 THEN {<<nodes[1]>>}
     ELSE {[p \in 1..n |-> nodes[t[p]]] : t \in indexTours}

\* twoOptSwap of GRASP
graspTwoOptSwap(tour, i, j) ==
  [p \in 1..Len(tour) |->
     IF i + 1 <= p /\ p <= j + 1 THEN tour[i + j + 2 - p] ELSE tour[p]]

\* calculateDelta of GRASP
graspCalculateDelta(tour, i, j) ==
  LET n == Len(tour)
      a == IF i > 0 THEN tour[i] ELSE tour[n]
      b == tour[i + 1]
      c == tour[j + 1]
      d == tour[((j + 1) % n) + 1]
      oldAB == distance(a, b)
      oldCD == distance(c, d)
      newAC == distance(a, c)
      newBD == distance(b, d)
  IN newAC + newBD - (oldAB + oldCD)

\* the while loop of localSearch: trace holds the tours accepted so far
\* with the distance kept for each, the last one being currentTour and
\* currentDistance.  The first pair (i, j), in the order of the for
\* loops, whose delta is below -1e-10 (for integer lengths: below 0) is
\* applied.
RECURSIVE localSearchLoop(_, _, _)
localSearchLoop(trace, iterations, maxIterations) ==
  LET current == trace[Len(trace)]
      n == Len(current.tour)
      improving == {q[1] * n + q[2] :
                      q \in {r \in (1..(n - 2)) \X (2..(n - 1)) :
                               /\ r[1] + 1 <= r[2]
                               /\ graspCalculateDelta(current.tour, r[1], r[2]) < 0}}
      first == Least(improving)
      i == first \div n
      j == first % n
  IN IF iterations >= maxIterations \/ improving = {} THEN trace
     ELSE localSearchLoop(
            Append(trace,
                   [tour |-> graspTwoOptSwap(current.tour, i, j),
                    distance |-> current.distance +
                                 graspCalculateDelta(current.tour, i, j)]),
            iterations + 1, maxIterations)

\* localSearch(tour, maxIterations), as the sequence of the tours it goes
\* through with their distances; the last one is returned
localSearch(tour, maxIterations) ==
  LET start == <<[tour |-> tour, distance |-> tourDistance(tour)]>>
  IN IF Len(tour) < 4 THEN start
     ELSE localSearchLoop(start, 0, maxIterations)

\* one iteration of the loop of grasp.solve on the constructed tour
graspIterate(st, constructedTour, config) ==
  LET search == localSearch(constructedTour, config.localSearchMaxIterations)
      improved == search[Len(search)]
  IN IF improved.distance < st.bestDistance
     THEN [bestTour |-> improved.tour, bestDistance |-> improved.distance,
           iter |-> st.iter + 1, search |-> search]
     ELSE [st EXCEPT !.iter = @ + 1, !.search = search]

\* ------------------------------------------------------------- genetic
\* the for loop of shuffleArray from position i down: every choice of j
RECURSIVE shuffleFrom(_, _)
shuffleFrom(result, i) ==
  IF i <= 0 THEN {result}
  ELSE UNION {shuffleFrom(Swap(result, i, j), i - 1) : j \in 0..i}

\* shuffleArray(array): the arrays it can return
shuffleArray(array) == shuffleFrom(array, Len(array) - 1)

\* initializePopulation(nodes, populationSize): the populations it can
\* return, the nearest-neighbour tour followed by shuffles
initializePopulation(nodes, populationSize) ==
  {<<nearestNeighborTour(nodes)>> \o [i \in 1..(populationSize - 1) |-> rest[i]] :
     rest \in [1..(populationSize - 1) -> shuffleArray(nodes)]}

\* tournamentSelection(population, fitness): the individuals it can
\* return (every draw of the tournament can be the same individual)
tournamentSelection(population) ==
  {population[idx] : idx \in 1..Len(population)}

\* a crossover that takes parent2's node at every position outside the
\* slice, used or not
orderCrossover_Positional(parent1, parent2, rs, re) ==
  [p \in 1..Len(parent1) |->
     IF Min(rs, re) + 1 <= p /\ p <= Max(rs, re) + 1 THEN parent1[p]
     ELSE parent2[p]]

\* orderCrossover(parent1, parent2) with the random cut points rs and re,
\* for parents that hold the same nodes with distinct ids
orderCrossover(parent1, parent2, rs, re) ==
  LET n == Len(parent1)
      start == Min(rs, re)
      end == Max(rs, re)
      usedIds == {parent1[p].id : p \in (start + 1)..(end + 1)}
      fromParent2 == [i \in 1..n |-> parent2[((end + i) % n) + 1]]
      Unused(city) == city.id \notin usedIds
      rest == SelectSeq(fromParent2, Unused)
  IN IF n < 3 THEN parent1
     ELSE [p \in 1..n |->
             IF start + 1 <= p /\ p <= end + 1 THEN parent1[p]
             ELSE rest[((p - 1 - (end + 1) + n) % n) + 1]]

\* swapMutation(tour) with the random positions i # j
swapMutation(tour, i, j) ==
  IF Len(tour) < 2 THEN tour ELSE Swap(tour, i, j)

\* the offspring one pass of the while loop of geneticAlgorithm.solve can
\* push, for crossover and mutation rates strictly between 0 and 1
offspringOf(population) ==
  LET n == Len(population[1])
      positions == 0..(n - 1)
      crossed == UNION {{parent1} \cup
                        {orderCrossover(parent1, parent2, rs, re) :
                           rs \in positions, re \in positions} :
                        parent1 \in tournamentSelection(population),
                        parent2 \in tournamentSelection(population)}
  IN UNION {{offspring} \cup
            {swapMutation(offspring, q[1], q[2]) :
               q \in {r \in positions \X positions : r[1] # r[2]}} :
            offspring \in crossed}

\* getEliteIndices(fitness, count) on a population of tours of positive
\* length: the indices of the count shortest tours, earlier ones first
\* among equals
getEliteIndices(population, count) ==
  LET dist(i) == tourDistance(population[i])
      before(i) == {j \in 1..Len(population) :
                      dist(j) < dist(i) \/ (dist(j) = dist(i) /\ j < i)}
  IN [k \in 1..Min(Max(count, 0), Len(population)) |->
        CHOOSE i \in 1..Len(population) : Cardinality(before(i)) = k - 1]

\* the elites a generation starts its new population with
elitesOf(population, config) ==
  LET eliteCount == Min(IF config.eliteCount = Undefined THEN 2
                        ELSE config.eliteCount,
                        config.populationSize)
      eliteIndices == getEliteIndices(population, eliteCount)
  IN [k \in 1..Len(eliteIndices) |-> population[eliteIndices[k]]]

\* the variables of geneticAlgorithm.solve before its loop
geneticStart(population) ==
  [population |-> population,
   bestTour |-> population[1],
   bestDistance |-> tourDistance(population[1]),
   gen |-> 0]

\* one generation: the elites and the offspring make the new population,
\* and the first of its shortest tours becomes the best one if it is
\* shorter than the best so far
geneticGeneration(st, offspring, config) ==
  LET newPopulation == elitesOf(st.population, config) \o offspring
      dists == {tourDistance(newPopulation[i]) : i \in 1..Len(newPopulation)}
      shortest == Least(dists)
      first == Least({i \in 1..Len(newPopulation) :
                        tourDistance(newPopulation[i]) = shortest})
  IN IF Len(newPopulation) > 0 /\ shortest < st.bestDistance
     THEN [population |-> newPopulation,
           bestTour |-> newPopulation[first],
           bestDistance |-> shortest,
           gen |-> st.gen + 1]
     ELSE [st EXCEPT !.population = newPopulation, !.gen = @ + 1]

\* ---------------------------------------------------------- ant colony
\* selectNextCity: the cities it can return, every probability being
\* positive
selectNextCity(currentIdx, unvisited) == unvisited

\* the while loop of constructTour
RECURSIVE antExtend(_, _)
antExtend(tour, unvisited) ==
  IF unvisited = {} THEN {tour}
  ELSE UNION {antExtend(Append(tour, nextIdx), unvisited \ {nextIdx}) :
                nextIdx \in selectNextCity(tour[Len(tour)], unvisited)}

\* constructTour(nodes, ...): the tours of indices it can return
constructTour(nodes) ==
  UNION {antExtend(<<startIdx>>, (1..Len(nodes)) \ {startIdx}) :
           startIdx \in 1..Len(nodes)}

\* indicesToNodes(tour, nodes)
indicesToNodes(tour, nodes) == [p \in 1..Len(tour) |-> nodes[tour[p]]]

\* calculateTourLength(tour, distances)
calculateTourLength(tour, nodes) ==
  LET n == Len(tour)
      length[i \in 0..(n - 1)] ==
        IF i = 0 THEN 0
        ELSE length[i - 1] + distance(nodes[tour[i]], nodes[tour[i + 1]])
  IN length[n - 1] + distance(nodes[tour[n]], nodes[tour[1]])

\* for (iter < iterations) for (ant < antCount): whether an ant is still
\* to construct a tour
antContinues(st, config) ==
  st.iter < config.iterations /\ st.ant < config.antCount

\* one ant: its tour becomes the best one if it is shorter; after the
\* last ant of an iteration the next iteration begins
antIterate(st, tour, nodes, config) ==
  LET length == calculateTourLength(tour, nodes)
      tracked == IF length < st.bestLength
                 THEN [st EXCEPT !.bestTour = tour, !.bestLength = length]
                 ELSE st
  IN IF st.ant + 1 < config.antCount
     THEN [tracked EXCEPT !.ant = @ + 1]
     ELSE [tracked EXCEPT !.ant = 0, !.iter = @ + 1]

\* ------------------------------------------------- the calls of solve
\* call.fn is the algorithm whose solve was called, call.arg its graph's
\* nodes and its config, call.st the variables of the loop solve is in,
\* and call.ret what it returned.  solve is called once.

Heuristics == {"naive", "nearestNeighbour", "kopt", "simulatedAnnealing",
               "genetic", "antColony", "grasp"}

NotReturned == [done |-> FALSE, path |-> <<>>, distance |-> 0]
Returned(result) ==
  [done |-> TRUE, path |-> result.path, distance |-> result.distance]

Called(fn, nodes, config, st, ret) ==
  [fn |-> fn, arg |-> [nodes |-> nodes, config |-> config], st |-> st,
   ret |-> ret]

\* a call in the loop of fn
InLoop(fn) == call.fn = fn /\ ~call.ret.done

\* config.k: omitted, or an integer
KoptConfigs == {[k |-> k] : k \in {Undefined, 1, 2, 3, 4}}

\* simulated annealing only has a move that changes the cycle from five
\* nodes on
SaGraphs ==
  Graphs \cup {NodesOf(o, Min(MaxNodes + 1, Len(Points))) : o \in Orders}

\* the number of coolings above minTemperature, and maxIterations
SaConfigs ==
  {[coolings |-> c, maxIterations |-> m] :
     c \in 0..MaxIterations, m \in 0..MaxIterations}

\* alpha in hundredths (0.3 and 1000 are the defaults); with alpha = 1
\* every tour can be constructed, and one iteration is followed
GraspConfigs ==
  {[alpha |-> a, iterations |-> i, localSearchMaxIterations |-> m] :
     a \in {0, 30}, i \in 0..MaxIterations, m \in {0, 1000}} \cup
  {[alpha |-> 100, iterations |-> i, localSearchMaxIterations |-> m] :
     i \in 0..1, m \in {0, 1000}}

\* populations of up to two tours in which a generation adds at most one
\* offspring; one generation is followed when the offspring has two
\* different parents
GeneticConfigs ==
  {[populationSize |-> q[1], eliteCount |-> q[2], generations |-> g] :
     q \in {<<0, Undefined>>, <<1, 0>>, <<1, Undefined>>, <<2, Undefined>>},
     g \in 0..MaxIterations} \cup
  {[populationSize |-> 2, eliteCount |-> 1, generations |-> g] : g \in 0..1}

AntConfigs ==
  {[iterations |-> i, antCount |-> a] : i \in 0..MaxIterations, a \in 0..2}

NaiveSolve(nodes) ==
  /\ call = NoCall
  /\ call' = Called("naive", nodes, Undefined, [iter |-> 0],
                    Returned(naiveSolve(nodes)))
  /\ UNCHANGED <<runnerVars, inst>>

NearestNeighbourSolve(nodes) ==
  /\ call = NoCall
  /\ call' = Called("nearestNeighbour", nodes, Undefined, [iter |-> 0],
                    Returned(nearestNeighbourSolve(nodes)))
  /\ UNCHANGED <<runnerVars, inst>>

KoptSolve(nodes, config) ==
  /\ call = NoCall
  /\ call' = Called("kopt", nodes, config,
                    [iter |-> 0, trace |-> koptTrace(nodes, config)],
                    Returned(koptSolve(nodes, config)))
  /\ UNCHANGED <<runnerVars, inst>>

\* simulatedAnnealing.solve up to its loop
SaSolve(nodes, config) ==
  /\ call = NoCall
  /\ call' = IF Len(nodes) < 3
             THEN Called("simulatedAnnealing", nodes, config, [iter |-> 0],
                         Returned(earlyResult(nodes)))
             ELSE Called("simulatedAnnealing", nodes, config,
                         saStart(nodes, config), NotReturned)
  /\ UNCHANGED <<runnerVars, inst>>

\* Math.floor(Math.random() * (n - 1)) + 1
SaPositions ==
  IF InLoop("simulatedAnnealing") THEN 1..(Len(call.arg.nodes) - 1) ELSE {}

SaIterate(ri, rj, accept) ==
  /\ InLoop("simulatedAnnealing")
  /\ saContinues(call.st, call.arg.config)
  /\ call' = [call EXCEPT !.st = saIterate(call.st, ri, rj, accept)]
  /\ UNCHANGED <<runnerVars, inst>>

SaReturn ==
  /\ InLoop("simulatedAnnealing")
  /\ ~saContinues(call.st, call.arg.config)
  /\ call' = [call EXCEPT
                !.ret = Returned(Result(Closed(call.st.bestTour),
                                        call.st.bestDistance))]
  /\ UNCHANGED <<runnerVars, inst>>

\* grasp.solve up to its loop
GraspSolve(nodes, config) ==
  /\ call = NoCall
  /\ call' = IF Len(nodes) < 3
             THEN Called("grasp", nodes, config, [iter |-> 0],
                         Returned(earlyResult(nodes)))
             ELSE Called("grasp", nodes, config,
                         [bestTour |-> <<>>, bestDistance |-> Infinity,
                          iter |-> 0, search |-> <<>>],
                         NotReturned)
  /\ UNCHANGED <<runnerVars, inst>>

GraspIterate ==
  /\ InLoop("grasp")
  /\ call.st.iter < call.arg.config.iterations
  /\ \E constructedTour \in graspConstruction(call.arg.nodes,
                                              call.arg.config.alpha) :
        call' = [call EXCEPT
                   !.st = graspIterate(call.st, constructedTour, call.arg.config)]
  /\ UNCHANGED <<runnerVars, inst>>

GraspReturn ==
  /\ InLoop("grasp")
  /\ ~(call.st.iter < call.arg.config.iterations)
  /\ call' = [call EXCEPT
                !.ret = Returned(Result(Closed(call.st.bestTour),
                                        call.st.bestDistance))]
  /\ UNCHANGED <<runnerVars, inst>>

\* geneticAlgorithm.solve up to its loop
GeneticSolve(nodes, config) ==
  /\ call = NoCall
  /\ \E population \in initializePopulation(nodes, config.populationSize) :
        call' = IF Len(nodes) < 3
                THEN Called("genetic", nodes, config, [iter |-> 0],
                            Returned(earlyResult(nodes)))
                ELSE Called("genetic", nodes, config,
                            geneticStart(population), NotReturned)
  /\ UNCHANGED <<runnerVars, inst>>

\* one generation, with the tours its while loop can push
GeneticGeneration ==
  /\ InLoop("genetic")
  /\ call.st.gen < call.arg.config.generations
  /\ LET needed == call.arg.config.populationSize -
                   Len(elitesOf(call.st.population, call.arg.config))
         offsprings == IF needed <= 0 THEN {<<>>}
                       ELSE {[i \in 1..needed |-> f[i]] :
                               f \in [1..needed -> offspringOf(call.st.population)]}
     IN \E offspring \in offsprings :
           call' = [call EXCEPT
                      !.st = geneticGeneration(call.st, offspring,
                                               call.arg.config)]
  /\ UNCHANGED <<runnerVars, inst>>

GeneticReturn ==
  /\ InLoop("genetic")
  /\ ~(call.st.gen < call.arg.config.generations)
  /\ call' = [call EXCEPT
                !.ret = Returned(Result(Closed(call.st.bestTour),
                                        call.st.bestDistance))]
  /\ UNCHANGED <<runnerVars, inst>>

\* antColonyAlgorithm.solve up to its loops
AntSolve(nodes, config) ==
  /\ call = NoCall
  /\ call' = IF Len(nodes) < 3
             THEN Called("antColony", nodes, config, [iter |-> 0],
                         Returned(earlyResult(nodes)))
             ELSE Called("antColony", nodes, config,
                         [bestTour |-> <<>>, bestLength |-> Infinity,
                          iter |-> 0, ant |-> 0],
                         NotReturned)
  /\ UNCHANGED <<runnerVars, inst>>

AntIterate ==
  /\ InLoop("antColony")
  /\ antContinues(call.st, call.arg.config)
  /\ \E tour \in constructTour(call.arg.nodes) :
        call' = [call EXCEPT
                   !.st = antIterate(call.st, tour, call.arg.nodes,
                                     call.arg.config)]
  /\ UNCHANGED <<runnerVars, inst>>

AntReturn ==
  /\ InLoop("antColony")
  /\ ~antContinues(call.st, call.arg.config)
  /\ call' = [call EXCEPT
                !.ret = Returned(Result(
                           Closed(indicesToNodes(call.st.bestTour,
                                                 call.arg.nodes)),
                           call.st.bestLength))]
  /\ UNCHANGED <<runnerVars, inst>>

NextSolve ==
  \/ \E nodes \in Graphs : NaiveSolve(nodes)
  \/ \E nodes \in Graphs : NearestNeighbourSolve(nodes)
  \/ \E nodes \in Graphs \cup LargeGraphs, config \in KoptConfigs :
        KoptSolve(nodes, config)
  \/ \E nodes \in SaGraphs, config \in SaConfigs : SaSolve(nodes, config)
  \/ \E ri \in SaPositions, rj \in SaPositions, accept \in BOOLEAN :
        SaIterate(ri, rj, accept)
  \/ SaReturn
  \/ \E nodes \in Graphs, config \in GraspConfigs : GraspSolve(nodes, config)
  \/ GraspIterate
  \/ GraspReturn
  \/ \E nodes \in Graphs, config \in GeneticConfigs : GeneticSolve(nodes, config)
  \/ GeneticGeneration
  \/ GeneticReturn
  \/ \E nodes \in Graphs, config \in AntConfigs : AntSolve(nodes, config)
  \/ AntIterate
  \/ AntReturn

SpecSolve == Init /\ [][NextSolve]_vars

\* ---------------------------------------------------------- vocabulary
\* a call of solve that returned
SolveReturned == call.fn \in Heuristics /\ call.ret.done

\* the tour holds every node of nodes exactly once
IsPermutation(tour, nodes) ==
  /\ Len(tour) = Len(nodes)
  /\ \A i \in 1..Len(nodes) :
        Cardinality({p \in 1..Len(tour) : tour[p].id = nodes[i].id}) = 1

\* the sum of the lengths of the consecutive edges of a path
pathLength(path) ==
  LET length[i \in 1..Len(path)] ==
        IF i = 1 THEN 0
        ELSE length[i - 1] + distance(path[i - 1], path[i])
  IN IF Len(path) = 0 THEN 0 ELSE length[Len(path)]

\* the tours the running or returned call has built and still holds
IntermediateTours ==
  IF call.fn = "kopt"
  THEN {call.st.trace[k] : k \in 1..Len(call.st.trace)}
  ELSE IF call.fn = "simulatedAnnealing" /\ Len(call.arg.nodes) > 2
  THEN {call.st.currentTour, call.st.bestTour}
  ELSE IF call.fn = "grasp" /\ Len(call.arg.nodes) > 2
  THEN {call.st.search[k].tour : k \in 1..Len(call.st.search)}
  ELSE IF call.fn = "genetic" /\ Len(call.arg.nodes) > 2
  THEN {call.st.population[k] : k \in 1..Len(call.st.population)}
  ELSE IF call.fn = "antColony" /\ Len(call.arg.nodes) > 2
          /\ call.st.bestTour # <<>>
  THEN {indicesToNodes(call.st.bestTour, call.arg.nodes)}
  ELSE {}

\* ------------------------------------------------------------------ C17
\* C17: whenever a heuristic returns for a graph of n >= 2 nodes, whatever
\* the config, the path has n + 1 elements and its first and last
\* elements have the same id.
C17_ClosedTour ==
  (SolveReturned /\ Len(call.arg.nodes) >= 2) =>
     /\ Len(call.ret.path) = Len(call.arg.nodes) + 1
     /\ call.ret.path[1].id = call.ret.path[Len(call.ret.path)].id

\* ------------------------------------------------------------------ C18
\* C18: whenever a heuristic returns for a graph of n >= 1 nodes with
\* distinct ids, the path without its closing element holds every input
\* node exactly once; and so does every tour the moves, crossover,
\* mutation and constructions build on the way.
C18_TourIsPermutation ==
  /\ (SolveReturned /\ Len(call.arg.nodes) >= 1) =>
        IsPermutation(IF Len(call.arg.nodes) = 1 THEN call.ret.path
                      ELSE SubSeq(call.ret.path, 1, Len(call.ret.path) - 1),
                      call.arg.nodes)
  /\ call.fn \in Heuristics =>
        \A tour \in IntermediateTours : IsPermutation(tour, call.arg.nodes)

\* ------------------------------------------------------------------ C19
\* C19: for a graph of n <= 1 nodes every heuristic returns, without
\* throwing, the input node list as the path (empty for n = 0, the single
\* node for n = 1, no closing element) and distance 0.
C19_TrivialGraphs ==
  (call.fn \in Heuristics /\ Len(call.arg.nodes) <= 1) =>
     /\ call.ret.done
     /\ call.ret.path = call.arg.nodes
     /\ call.ret.distance = 0

\* every heuristic was given a single node; here the exhaustive search,
\* which has no early return for it
C19_Witness ==
  /\ call.fn = "naive"
  /\ Len(call.arg.nodes) = 1
  /\ call.ret.done
  /\ call.ret.path = call.arg.nodes

\* ------------------------------------------------------------------ C20
\* C20: whenever a heuristic returns for a graph of n >= 2 nodes, the
\* distance it reports is the length of the returned closed path; and the
\* distances simulated annealing and GRASP keep by adding deltas are the
\* lengths of the tours they accompany.
C20_DistanceIsTourLength ==
  /\ (SolveReturned /\ Len(call.arg.nodes) >= 2) =>
        call.ret.distance = pathLength(call.ret.path)
  /\ (call.fn = "simulatedAnnealing" /\ Len(call.arg.nodes) > 2) =>
        /\ call.st.currentDistance = tourDistance(call.st.currentTour)
        /\ call.st.bestDistance = tourDistance(call.st.bestTour)
  /\ (call.fn = "grasp" /\ Len(call.arg.nodes) > 2) =>
        \A k \in 1..Len(call.st.search) :
           call.st.search[k].distance = tourDistance(call.st.search[k].tour)

\* ------------------------------------------------------------------ C21
\* the k that koptAlgorithm.solve uses for a config
kOf(config) == IF config.k = Undefined THEN 2 ELSE config.k

\* C21: whenever k-opt returns for a graph with some k >= 2, its distance
\* is no greater than the distance k-opt returns for the same graph with
\* any lower k >= 2; in particular k = 3 is no longer than k = 2.
C21_HigherKNoLonger ==
  (call.fn = "kopt" /\ call.ret.done /\ kOf(call.arg.config) >= 2) =>
     \A lower \in KoptConfigs :
        (2 <= kOf(lower) /\ kOf(lower) < kOf(call.arg.config)) =>
           call.ret.distance <= koptSolve(call.arg.nodes, lower).distance

\* ------------------------------------------------------------------ C22
\* The runner with the scheduling of the event loop: time passes while a
\* timer is armed, and the callback of a timer that is due is run.
SpecTimers ==
  Init /\ [][Next]_vars /\ WF_vars(Tick) /\ \A r \in Runs : WF_vars(OnTimeout(r))

\* C22: a run that armed a timer (run() with a positive timeout whose
\* worker was created) eventually has a settled promise and is no longer
\* in flight, whatever the worker does; and cancel() settles every promise
\* that is still pending, timeout or not.
C22_RunEventuallySettles ==
  /\ \A r \in Runs :
        (timer[r].st = "armed") ~> (Settled(r) /\ ~InFlight(r))
  /\ [][\A r \in Runs :
          (promise[r].outcome = "pending" /\ Cancel) => Settled(r)']_vars

\* ------------------------------------------------------------------ C23
\* generateKOptPositions as a function of its own: the tour lengths and
\* the values of k it is applied to
MaxTourLength == 18   \* longest tour whose positions are generated
MaxK == 5             \* the largest k the config offers

GenerateKOptPositions(n, k) ==
  /\ call = NoCall
  /\ call' = [fn |-> "generateKOptPositions", arg |-> [n |-> n, k |-> k],
              ret |-> generateKOptPositions(n, k)]
  /\ UNCHANGED <<runnerVars, inst>>

NextPositions ==
  \E n \in 0..MaxTourLength, k \in 0..MaxK : GenerateKOptPositions(n, k)

SpecPositions == Init /\ [][NextPositions]_vars

\* C23: generateKOptPositions(n, k) returns at most 1000 combinations:
\* all of them when there are at most 1000, a sub-sample otherwise.
C23_AtMostThousandPositions ==
  call.fn = "generateKOptPositions" =>
     LET positions == generate(call.arg.n, call.arg.k, <<>>, 0)
     IN /\ Len(call.ret) <= 1000
        /\ Len(positions) <= 1000 => call.ret = positions
        /\ \A m \in 1..Len(call.ret) :
              \E p \in 1..Len(positions) : call.ret[m] = positions[p]

\* ------------------------------------------------------------------ C24
\* C24: k-opt with k = 2 returns, and the tour it returns is 2-opt locally
\* optimal: reversing the positions i+1..j, for 0 <= i and i+2 <= j < n,
\* never gives a shorter closed tour; and every move it accepted on the
\* way made the tour strictly shorter.
C24_TwoOptLocalOptimum ==
  (call.fn = "kopt" /\ kOf(call.arg.config) = 2 /\ Len(call.arg.nodes) >= 2) =>
     LET trace == call.st.trace
         tour == trace[Len(trace)]
         n == Len(tour)
     IN /\ call.ret.done
        /\ call.ret.path = Closed(tour)
        /\ \A i \in 0..(n - 1), j \in 0..(n - 1) :
              i + 2 <= j =>
                 tourDistance(koptTwoOptSwap(tour, i + 1, j)) >= tourDistance(tour)
        /\ \A m \in 2..Len(trace) :
              tourDistance(trace[m]) < tourDistance(trace[m - 1])

\* 2-opt accepted two moves before it reached a local optimum
C24_Witness ==
  /\ call.fn = "kopt"
  /\ kOf(call.arg.config) = 2
  /\ call.ret.done
  /\ Len(call.st.trace) >= 3

\* ------------------------------------------------------------------ C25
\* the tours nearestNeighborTour returned in the call: the one the
\* nearest-neighbour heuristic closes, the one k-opt starts from
NearestNeighbourTours ==
  IF call.fn = "nearestNeighbour" /\ Len(call.arg.nodes) >= 2
  THEN {SubSeq(call.ret.path, 1, Len(call.ret.path) - 1)}
  ELSE IF call.fn = "kopt" /\ Len(call.arg.nodes) >= 2
  THEN {call.st.trace[1]}
  ELSE {}

\* C25: a tour returned by nearestNeighborTour starts with the node at
\* input index 0, and each further node is an unvisited node at the
\* smallest distance from the node before it, the one with the lowest
\* input index among equal minima. Only one tour satisfies this, so the
\* tour is a function of the input sequence.
C25_NearestNeighbourDeterministic ==
  \A tour \in NearestNeighbourTours :
     LET nodes == call.arg.nodes
         idx(p) == CHOOSE i \in 1..Len(nodes) : nodes[i].id = tour[p].id
         unvisited(p) == (1..Len(nodes)) \ {idx(q) : q \in 1..(p - 1)}
     IN /\ Len(tour) = Len(nodes)
        /\ tour[1] = nodes[1]
        /\ \A p \in 2..Len(tour) :
              /\ tour[p] = nodes[idx(p)]
              /\ idx(p) \in unvisited(p)
              /\ \A u \in unvisited(p) :
                    /\ distance(tour[p - 1], tour[p]) <=
                          distance(tour[p - 1], nodes[u])
                    /\ distance(tour[p - 1], tour[p]) =
                          distance(tour[p - 1], nodes[u]) => idx(p) <= u

\* the nearest-neighbour heuristic returned for a graph in which two
\* unvisited nodes were equally near the current one
C25_Witness ==
  /\ call.fn = "nearestNeighbour"
  /\ call.ret.done
  /\ \E p \in 2..(Len(call.arg.nodes) - 1) :
        \E u \in (p + 1)..Len(call.arg.nodes) :
           distance(call.ret.path[p - 1], call.ret.path[p]) =
              distance(call.ret.path[p - 1], call.ret.path[u])

\* ------------------------------------------------------------------ C26
\* the orderings of n things, as sequences of input indices
Orderings(n) ==
  {o \in [1..n -> 1..n] : \A i, j \in 1..n : o[i] = o[j] => i = j}

\* ordering a is generated no later than ordering b: permute generates
\* the orderings in lexicographic order of the input indices
GeneratedBefore(a, b) ==
  \/ a = b
  \/ \E k \in 1..Len(a) : a[k] < b[k] /\ \A m \in 1..(k - 1) : a[m] = b[m]

CrossoverGraphs == {nodes \in Graphs : Len(nodes) >= 3 /\ nodes[1] = Points[1]}

OrderCrossover(parent1, parent2, rs, re) ==
  /\ call = NoCall
  /\ call' = [fn |-> "orderCrossover",
              arg |-> [parent1 |-> parent1, parent2 |-> parent2,
                       start |-> Min(rs, re), end |-> Max(rs, re)],
              ret |-> orderCrossover(parent1, parent2, rs, re)]
  /\ UNCHANGED <<runnerVars, inst>>

NextCrossover ==
  \E nodes \in IF call = NoCall THEN CrossoverGraphs ELSE {} :
     \E parent1 \in shuffleArray(nodes), parent2 \in shuffleArray(nodes) :
        \E rs \in 0..(Len(nodes) - 1), re \in 0..(Len(nodes) - 1) :
           OrderCrossover(parent1, parent2, rs, re)

SpecCrossover == Init /\ [][NextCrossover]_vars

\* C27: the child orderCrossover returns for two orderings of the same
\* n >= 3 nodes and cut points start <= end holds every node exactly once,
\* has parent1's nodes at the positions start..end, and, read cyclically
\* from position end + 1, has the other nodes in the order in which
\* parent2 has them when read cyclically from position end + 1.
C27_CrossoverIsPermutation ==
  call.fn = "orderCrossover" =>
     LET parent1 == call.arg.parent1
         parent2 == call.arg.parent2
         start == call.arg.start
         end == call.arg.end
         child == call.ret
         n == Len(parent1)
         kept == {parent1[p + 1].id : p \in start..end}
         NotKept(city) == city.id \notin kept
         cyclic(tour) == [i \in 1..n |-> tour[((end + i) % n) + 1]]
     IN /\ IsPermutation(child, parent1)
        /\ \A p \in start..end : child[p + 1] = parent1[p + 1]
        /\ SelectSeq(cyclic(child), NotKept) = SelectSeq(cyclic(parent2), NotKept)

\* a crossover with a proper slice whose child is neither parent
C27_Witness ==
  /\ call.fn = "orderCrossover"
  /\ 0 < call.arg.start
  /\ call.arg.start < call.arg.end
  /\ call.ret # call.arg.parent1
  /\ call.ret # call.arg.parent2

\* ------------------------------------------------------------------ C28
\* the tour the last iteration of GRASP constructed
Constructed == call.st.search[1].tour

\* an iteration of GRASP on three or more nodes has constructed a tour
HasConstructed ==
  /\ call.fn = "grasp"
  /\ Len(call.arg.nodes) >= 3
  /\ Len(call.st.search) >= 1

\* the nodes not yet in the constructed tour before its position p
UnvisitedAt(p) ==
  {u \in 1..Len(call.arg.nodes) :
     \A q \in 1..(p - 1) : Constructed[q].id # call.arg.nodes[u].id}

\* the distance from the node before position p to input node u
DistAt(p, u) == distance(Constructed[p - 1], call.arg.nodes[u])

\* input node u is within minDist + alpha * (maxDist - minDist) at the step
\* that fills position p (alpha in hundredths)
WithinThreshold(p, u) ==
  LET dists == {DistAt(p, v) : v \in UnvisitedAt(p)}
  IN 100 * DistAt(p, u) <=
        100 * Least(dists) + call.arg.config.alpha * (Greatest(dists) - Least(dists))

Searching ==
  /\ call.fn \in {"kopt", "simulatedAnnealing", "genetic"}
  /\ Len(call.arg.nodes) >= 3

\* the length of the nearest-neighbour tour of the graph of the call
NearestNeighbourLength == tourDistance(nearestNeighborTour(call.arg.nodes))

\* the best distance the search tracks
BestDistance ==
  IF call.fn = "kopt"
  THEN tourDistance(call.st.trace[Len(call.st.trace)])
  ELSE call.st.bestDistance

\* the search has not made a step yet
AtStart ==
  IF call.fn = "kopt" THEN Len(call.st.trace) = 1
  ELSE IF call.fn = "simulatedAnnealing" THEN call.st.iteration = 0
  ELSE call.st.gen = 0

\* C29: while k-opt, simulated annealing or the genetic algorithm search,
\* the best distance they track is the nearest-neighbour tour's length at
\* the start and never more than it afterwards, no step increases it (nor
\* any tour k-opt accepts), and the distance returned is the tracked one.
C29_NeverWorseThanNearestNeighbour ==
  /\ [](Searching =>
          /\ BestDistance <= NearestNeighbourLength
          /\ AtStart => BestDistance = NearestNeighbourLength
          /\ call.ret.done => call.ret.distance = BestDistance
          /\ call.fn = "kopt" =>
                /\ tourDistance(call.st.trace[1]) = NearestNeighbourLength
                /\ \A m \in 2..Len(call.st.trace) :
                      tourDistance(call.st.trace[m]) <=
                         tourDistance(call.st.trace[m - 1]))
  /\ [][(Searching /\ Searching') => BestDistance' <= BestDistance]_vars

\* simulated annealing returned after its current tour had become longer
\* than the best one
C29_Witness ==
  /\ call.fn = "simulatedAnnealing"
  /\ Len(call.arg.nodes) >= 3
  /\ call.ret.done
  /\ call.st.currentDistance > call.st.bestDistance

\* ======================================================================
\* HomeView: "Run All Algorithms" and "Cancel All".  The runners created by
\* runAllAlgorithms() are inst[1], inst[2], ... in creation order; each one
\* is run once.  The view's own data is held in `call`.

\* the names "Run All" can have enabled
RunAllNames == {"kopt", "grasp"}

\* enabledAlgorithmsForRunAll: a non-empty list of distinct names
EnabledLists ==
  {<<n>> : n \in RunAllNames} \cup
  {l \in RunAllNames \X RunAllNames : l[1] # l[2]}

\* the view after setup: parallelRunners and runningAlgorithms are empty;
\* created[i] is the name runner i was started for, finalised the runners
\* whose .finally() callback has executed
NewHome ==
  [fn |-> "HomeView", parallelRunners |-> [n \in RunAllNames |-> 0],
   runningAlgorithms |-> {}, created |-> <<>>, finalised |-> {}]

Home == IF call = NoCall THEN NewHome ELSE call

\* promise reactions queued and not yet executed: the promise of runner i
\* has settled and its .finally() callback has not run.  They run before
\* the next task (click, worker event, timer).
Reactions ==
  {i \in 1..Len(Home.created) :
     /\ inst[i].promise[1].outcome \in {"resolved", "rejected"}
     /\ i \notin Home.finalised}

Drained == Reactions = {}

\* cancelAllAlgorithms(): runner.cancel() on every entry of parallelRunners
\* (algorithmRunner, the single runner, is idle here and its cancel()
\* returns at once)
cancelParallel(runners, h) ==
  [i \in Instances |->
     IF \E n \in RunAllNames : h.parallelRunners[n] = i
     THEN cancel(runners[i]) ELSE runners[i]]

\* parallelRunners.value.clear(); runningAlgorithms.value.clear()
clearParallel(h) ==
  [h EXCEPT !.parallelRunners = [n \in RunAllNames |-> 0],
            !.runningAlgorithms = {}]

CancelAllAlgorithms ==
  /\ Drained
  /\ Home.created # <<>>
  /\ inst' = cancelParallel(inst, Home)
  /\ call' = clearParallel(Home)
  /\ UNCHANGED runnerVars

\* the for loop of runAllAlgorithms(): runner k of the list is created,
\* registered under its name and started
RECURSIVE startRunners(_, _, _, _, _, _)
startRunners(runners, h, names, k, t, f) ==
  IF k > Len(names) THEN [runners |-> runners, home |-> h]
  ELSE LET i == Len(h.created) + 1
           started == [run(NewRunner, 1, t, f, TRUE) EXCEPT !.nRuns = 1]
       IN startRunners([runners EXCEPT ![i] = started],
                       [h EXCEPT !.parallelRunners[names[k]] = i,
                                 !.runningAlgorithms = @ \cup {names[k]},
                                 !.created = Append(@, names[k])],
                       names, k + 1, t, f)

\* runAllAlgorithms() on a graph with nodes (numbers only, so the request
\* serialises): cancelAllAlgorithms(), then one new runner per name
RunAllAlgorithms(names, t, f) ==
  /\ Drained
  /\ Len(Home.created) + Len(names) <= Cardinality(Instances)
  /\ LET r == startRunners(cancelParallel(inst, Home), clearParallel(Home),
                           names, 1, t, f)
     IN /\ inst' = r.runners
        /\ call' = r.home
  /\ UNCHANGED runnerVars

\* .finally() of the promise of runner i
finally(h, i) ==
  [h EXCEPT !.runningAlgorithms = @ \ {h.created[i]},
            !.parallelRunners[h.created[i]] = 0,
            !.finalised = @ \cup {i}]

Finally(i) ==
  /\ i \in Reactions
  /\ call' = finally(Home, i)
  /\ UNCHANGED <<runnerVars, inst>>

\* a worker event, a handler or a timer of one of the started runners
RunnerTask(i) ==
  /\ Drained
  /\ i <= Len(Home.created)
  /\ \/ IWorkerResponds(i, 1, "success", Null)
     \/ \E e \in WorkerErrors : IWorkerResponds(i, 1, "error", e)
     \/ \E e \in SetEventMessages : IWorkerFails(i, 1, e)
     \/ IOnMessage(i, 1)
     \/ IOnError(i, 1)
     \/ IOnTimeout(i, 1)

NextHome ==
  \/ \E names \in EnabledLists, t \in SetTimeoutOpts, f \in FactoryOutcomes :
        RunAllAlgorithms(names, t, f)
  \/ CancelAllAlgorithms
  \/ \E i \in Instances : Finally(i)
  \/ \E i \in Instances : RunnerTask(i)
  \/ Drained /\ ITick

SpecHome == Init /\ [][NextHome]_vars

\* runner i has been started and its run is in flight
RunnerInFlight(i) ==
  /\ i <= Len(Home.created)
  /\ inst[i].state.isRunning
  /\ inst[i].currentReject = 1

\* the runner most recently started for a name, 0 if none
LatestFor(n) ==
  IF \E i \in 1..Len(Home.created) : Home.created[i] = n
  THEN CHOOSE i \in 1..Len(Home.created) :
         /\ Home.created[i] = n
         /\ \A j \in 1..Len(Home.created) : Home.created[j] = n => j <= i
  ELSE 0

\* C30: between tasks, a name is in runningAlgorithms and has an entry in
\* parallelRunners exactly while the runner most recently started for it
\* is in flight, also after runAllAlgorithms() ran again while earlier
\* parallel runs were in flight; every runner in flight is the entry of
\* its name, and cancelAllAlgorithms() leaves no started runner running.
C30_BookkeepingFollowsRunners ==
  /\ [](Drained =>
          /\ \A n \in RunAllNames :
                /\ n \in Home.runningAlgorithms <=> Home.parallelRunners[n] # 0
                /\ n \in Home.runningAlgorithms <=>
                      (LatestFor(n) # 0 /\ RunnerInFlight(LatestFor(n)))
          /\ \A i \in Instances :
                RunnerInFlight(i) => Home.parallelRunners[Home.created[i]] = i)
  /\ [][CancelAllAlgorithms =>
          \A i \in Instances : ~inst'[i].state.isRunning]_vars

====
